---------------------------- MODULE Spec2Model ----------------------------
(***************************************************************************)
(* The Session Engine of meeple_cat: one GameSession (engine/session.py)   *)
(* driven by the WebSocket handler (ws/handler.py), the grace timers, the  *)
(* operator's force-finish (api/admin.py) and the Session Manager          *)
(* (engine/session_manager.py), over two of the repository's plugins.      *)
(*                                                                         *)
(* Scheduling is asyncio's: one task runs at a time and gives way only at  *)
(* an await.  Every action below is one such run: it first completes the   *)
(* I/O the task was suspended on (save_state, broadcasts), then executes   *)
(* the synchronous code up to the next await.                              *)
(***************************************************************************)
EXTENDS Integers, Sequences, FiniteSets, TLC

(* ------------------------------ bounds -------------------------------- *)
\* tiles in the Carcassonne bag at creation (71 in the game, scaled down)
BagSize == 2
\* tiles each Ein Stein Dojo player starts with (TILES_PER_PLAYER, scaled down)
TilesPerPlayer == 1
\* WebSocket messages, drops and operator requests in one run; a run in which
\* the players are alone (no operator, no restart, create_session back before
\* they connect) is one longer
MaxOps == 2
\* process restarts
MaxCrashes == 1
\* tasks waiting for the session lock at one time in a match of three players
\* (a match of two has room for one more)
MaxWaiters == 1
\* the grace period (grace_period_seconds), in ticks of the clock
Grace == 2
\* mcts_search: the actions get_valid_actions may list (placements of the tile
\* in hand, spots of the tile placed)
MaxActions == 2
\* mcts_search: num_simulations
MaxSims == 4
\* mcts_search: num_determinizations
MaxDets == 2
\* mcts_search: time_limit_ms, in ticks of the monotonic clock
MaxTime == 1
\* simulation states: the tiles of the bag
MaxBag == 3
\* one search tree: the iterations run on it
MaxTreeIters == 4
\* one search tree: the open positions of the board, and the spots of a tile
MaxChoices == 5
\* simulation states: the iterations of one determinization
MaxIters == 2
\* cleanup_stale_matches: the ticks of the clock in 24 hours, midnight being at
\* the multiples
Day == 4
\* cleanup_stale_matches: the days the clock runs
MaxDays == 2
\* the connections one player opens, one after the other
MaxConns == 3

(* ----------------------------- identifiers ---------------------------- *)
PlayerIds == {"p1", "p2", "p3"}
PlayerLists == {<<"p1", "p2">>, <<"p1", "p2", "p3">>}
None == "none"
Games == {"carcassonne", "einstein_dojo"}
DISCONNECT_POLICY_ABANDON_ALL == "abandon_all"
DISCONNECT_POLICY_FORFEIT_PLAYER == "forfeit_player"
Policies == {DISCONNECT_POLICY_ABANDON_ALL, DISCONNECT_POLICY_FORFEIT_PLAYER}
\* the plugin a match runs on: the repository's Carcassonne (2 to 5 players, no
\* disconnect_policy of its own, so the engine's default applies), or a game of
\* Ein Stein Dojo's rules: the repository's plugin (2 players, forfeit_player)
\* or one served through GrpcGamePlugin, which takes its player limits and its
\* policy from the game service
Configs ==
  {<<"carcassonne", ps, DISCONNECT_POLICY_FORFEIT_PLAYER>> : ps \in PlayerLists}
  \cup {<<"einstein_dojo", ps, pol>> : ps \in PlayerLists, pol \in Policies}

\* bot_strategy._STRATEGY_FACTORIES once main.py has registered its strategies
STRATEGY_FACTORIES == {"random", "mcts"}
\* the bot_id a seat may carry: the name of a strategy or any other string
BotIds == {"random", "unknown"}
\* no seat is a bot
NoBots == [p \in PlayerIds |-> None]
\* one of the first two seats is a bot
BotSeats == {[p \in PlayerIds |-> IF p = b THEN id ELSE None] : b \in {"p1", "p2"}, id \in BotIds}

\* the abstract payload of a submitted action: a legal or an illegal placement
Payloads == {"good", "bad"}

SeqSet(s) == {s[i] : i \in 1..Len(s)}
Zero(ps) == [p \in SeqSet(ps) |-> 0]

(* ------------------------------ models.py ----------------------------- *)
Phase(name, auto, expected, idx) ==
  [name |-> name, auto_resolve |-> auto, expected |-> expected, player_index |-> idx]
Event(type, pid) == [event_type |-> type, player_id |-> pid]
PersistedEvent(n, e) ==
  [sequence_number |-> n, event_type |-> e.event_type, player_id |-> e.player_id]
NoResult == [winners |-> <<>>, reason |-> None]
GameResult(winners, reason) == [winners |-> winners, reason |-> reason]
TransitionResult(gd, events, next, go) ==
  [raised |-> None, game_data |-> gd, events |-> events, next_phase |-> next,
   scores |-> gd.scores, game_over |-> go]
\* a plugin call that raises instead of returning
Raised(gd, ph, what) ==
  [raised |-> what, game_data |-> gd, events |-> <<>>, next_phase |-> ph,
   scores |-> gd.scores, game_over |-> NoResult]
\* on_player_forfeit returning None
NoTransition(gd, ph) == Raised(gd, ph, "returned None")

\* the players with the highest score, in seat order
RECURSIVE TopScorers(_, _, _)
TopScorers(ps, scores, i) ==
  IF i > Len(ps) THEN <<>>
  ELSE LET rest == TopScorers(ps, scores, i + 1)
       IN IF \A q \in SeqSet(ps) : scores[q] <= scores[ps[i]]
          THEN <<ps[i]>> \o rest ELSE rest

(* -------------------- games/carcassonne/plugin.py --------------------- *)
\* game_data: the number of tiles in the bag, and for the draws to come the
\* number of tiles on top of the bag that fit nowhere on the board (none where
\* the list is empty)
CarcInitial(ps) ==
  [game_data |-> [bag |-> BagSize, unplaceable |-> <<>>, tiles |-> Zero(ps), cur |-> 1,
                  scores |-> Zero(ps), forfeited |-> <<>>],
   phase |-> Phase("draw_tile", TRUE, None, 1),
   events |-> <<Event("game_started", None), Event("starting_tile_placed", None)>>]

CarcValidate(gd, ph, a) ==
  IF ph.name \in {"place_tile", "place_meeple"}
  THEN (IF a.payload = "good" THEN None ELSE "illegal placement")
  ELSE None

\* a draw that puts the tile drawn back on the bag
CarcDrawTileKeepsBag(gd, ph, ps) ==
  IF gd.bag = 0
  THEN TransitionResult(gd, <<Event("tile_bag_empty", None)>>,
                        Phase("end_game_scoring", TRUE, None, 0), NoResult)
  ELSE TransitionResult(gd, <<Event("tile_drawn", ps[ph.player_index])>>,
                        Phase("place_tile", FALSE, ps[ph.player_index], ph.player_index),
                        NoResult)
\* _draw_tile: the end of the game on an empty bag; else tiles are taken until
\* one fits the board, and the game ends if the bag is empty before
CarcDrawTile(gd, ph, ps) ==
  LET discarded == IF gd.unplaceable = <<>> THEN 0 ELSE Head(gd.unplaceable)
      rest == IF gd.unplaceable = <<>> THEN <<>> ELSE Tail(gd.unplaceable)
  IN IF gd.bag = 0
     THEN TransitionResult(gd, <<Event("tile_bag_empty", None)>>,
                           Phase("end_game_scoring", TRUE, None, 0), NoResult)
     ELSE IF discarded >= gd.bag
     THEN TransitionResult([gd EXCEPT !.bag = 0, !.unplaceable = rest],
                           <<Event("tile_discarded", ps[ph.player_index]),
                             Event("tile_bag_empty", None)>>,
                           Phase("end_game_scoring", TRUE, None, 0), NoResult)
     ELSE TransitionResult([gd EXCEPT !.bag = @ - discarded - 1, !.unplaceable = rest],
                           <<Event("tile_drawn", ps[ph.player_index])>>,
                           Phase("place_tile", FALSE, ps[ph.player_index], ph.player_index),
                           NoResult)

CarcPlaceTile(gd, ph, a, ps) ==
  IF a.payload # "good" THEN Raised(gd, ph, "InvalidActionError")
  ELSE TransitionResult(gd, <<Event("tile_placed", ps[ph.player_index])>>,
                        Phase("place_meeple", FALSE, ps[ph.player_index], ph.player_index),
                        NoResult)

CarcPlaceMeeple(gd, ph, a, ps) ==
  TransitionResult(gd, <<Event("meeple_placed", ps[ph.player_index])>>,
                   Phase("score_check", TRUE, None, ph.player_index), NoResult)

CarcScoreCheck(gd, ph, ps) ==
  TransitionResult([gd EXCEPT !.scores[ps[ph.player_index]] = @ + 1],
                   <<Event("feature_scored", ps[ph.player_index])>>,
                   Phase("draw_tile", TRUE, None, (ph.player_index % Len(ps)) + 1),
                   NoResult)

CarcEndGameScoring(gd, ph, ps) ==
  TransitionResult(gd, <<>>, Phase("game_over", FALSE, None, 0),
                   GameResult(TopScorers(ps, gd.scores, 1), "normal"))

CarcApply(gd, ph, a, ps) ==
  CASE ph.name = "draw_tile" -> CarcDrawTile(gd, ph, ps)
    [] ph.name = "place_tile" -> CarcPlaceTile(gd, ph, a, ps)
    [] ph.name = "place_meeple" -> CarcPlaceMeeple(gd, ph, a, ps)
    [] ph.name = "score_check" -> CarcScoreCheck(gd, ph, ps)
    [] ph.name = "end_game_scoring" -> CarcEndGameScoring(gd, ph, ps)
    [] OTHER -> Raised(gd, ph, "InvalidActionError")

(* ------------------- games/einstein_dojo/plugin.py -------------------- *)
DojoInitial(ps) ==
  [game_data |-> [bag |-> 0, tiles |-> [p \in SeqSet(ps) |-> TilesPerPlayer], cur |-> 1,
                  scores |-> Zero(ps), forfeited |-> <<>>],
   phase |-> Phase("place_tile", FALSE, ps[1], 1),
   events |-> <<Event("game_started", None)>>]

DojoValidate(gd, ph, a) ==
  IF ph.name = "place_tile"
  THEN (IF gd.tiles[a.player_id] <= 0 THEN "No tiles remaining"
        ELSE IF a.payload = "good" THEN None ELSE "illegal placement")
  ELSE None

DojoPlaceTile(gd, ph, a, ps) ==
  TransitionResult([gd EXCEPT !.tiles[a.player_id] = @ - 1],
                   <<Event("tile_placed", a.player_id)>>,
                   Phase("score_check", TRUE, None, gd.cur), NoResult)

DojoWinners(ps, scores) ==
  LET top == TopScorers(ps, scores, 1)
  IN IF Len(top) > 1 THEN SelectSeq(top, LAMBDA p : p = ps[2]) ELSE top

DojoScoreCheck(gd, ph, a, ps) ==
  LET g == [gd EXCEPT !.scores[ps[gd.cur]] = @ + 1]
      nxt == (gd.cur % Len(ps)) + 1
  IN IF g.tiles[ps[g.cur]] <= 0
     THEN TransitionResult(g, <<Event("game_ended", None)>>,
                           Phase("game_over", FALSE, None, 0),
                           GameResult(DojoWinners(ps, g.scores), "normal"))
     ELSE TransitionResult([g EXCEPT !.cur = nxt], <<>>,
                           Phase("place_tile", FALSE, ps[nxt], nxt), NoResult)

DojoApply(gd, ph, a, ps) ==
  CASE ph.name = "place_tile" -> DojoPlaceTile(gd, ph, a, ps)
    [] ph.name = "score_check" -> DojoScoreCheck(gd, ph, a, ps)
    [] OTHER -> Raised(gd, ph, "ValueError")

DojoOnPlayerForfeit(gd, ph, pid, ps) ==
  IF ph.name # "place_tile" THEN NoTransition(gd, ph)
  ELSE LET nxt == (gd.cur % Len(ps)) + 1
       IN TransitionResult([gd EXCEPT !.cur = nxt],
                           <<Event("turn_skipped", pid)>>,
                           Phase("place_tile", FALSE, ps[nxt], nxt), NoResult)

(* ------- a plugin whose every transition is an auto-resolve phase ------ *)
LoopInitial(ps) ==
  [game_data |-> [bag |-> 0, tiles |-> Zero(ps), cur |-> 1,
                  scores |-> Zero(ps), forfeited |-> <<>>],
   phase |-> Phase("spin", TRUE, None, 0),
   events |-> <<Event("game_started", None)>>]

LoopValidate(gd, ph, a) == IF a.payload = "bad" THEN "illegal" ELSE None

LoopApply(gd, ph, a, ps) ==
  TransitionResult(gd, <<>>, Phase("spin", TRUE, None, 0), NoResult)

(* -------------------- engine/protocol.py GamePlugin ------------------- *)
create_initial_state(g, ps) ==
  CASE g = "carcassonne" -> CarcInitial(ps)
    [] g = "looping" -> LoopInitial(ps)
    [] OTHER -> DojoInitial(ps)
validate_action(g, gd, ph, a) ==
  CASE g = "carcassonne" -> CarcValidate(gd, ph, a)
    [] g = "looping" -> LoopValidate(gd, ph, a)
    [] OTHER -> DojoValidate(gd, ph, a)
apply_action(g, gd, ph, a, ps) ==
  CASE g = "carcassonne" -> CarcApply(gd, ph, a, ps)
    [] g = "looping" -> LoopApply(gd, ph, a, ps)
    [] OTHER -> DojoApply(gd, ph, a, ps)
\* the Carcassonne plugin defines no on_player_forfeit: the call raises
on_player_forfeit(g, gd, ph, pid, ps) ==
  CASE g = "carcassonne" -> Raised(gd, ph, "AttributeError")
    [] g = "looping" -> NoTransition(gd, ph)
    [] OTHER -> DojoOnPlayerForfeit(gd, ph, pid, ps)

(* ----------------------- engine/game_simulator.py --------------------- *)
\* max_auto of apply_action_and_resolve
AUTO_CAP == 50

\* _phase_player_id: the player a synthetic action is made for: the one the
\* first expected action names, else the one at metadata["player_index"], else
\* the first player
phase_player_id(ph, ps) ==
  IF ph.expected # None THEN ph.expected
  ELSE IF ph.player_index # 0 /\ ph.player_index - 1 < Len(ps) THEN ps[ph.player_index]
  ELSE IF ps # <<>> THEN ps[1] ELSE "system"

\* the auto-resolve loop of apply_action_and_resolve, n synthetic actions
\* having been applied
RECURSIVE resolve(_, _, _, _, _, _)
resolve(g, gd, ph, ps, max_auto, n) ==
  IF ph.auto_resolve /\ max_auto > 0
  THEN LET res == apply_action(g, gd, ph,
                               [action_type |-> ph.name,
                                player_id |-> phase_player_id(ph, ps),
                                payload |-> None], ps)
       IN IF res.raised # None \/ res.game_over # NoResult
          THEN [game_data |-> res.game_data, phase |-> res.next_phase,
                game_over |-> res.game_over, raised |-> res.raised, autos |-> n + 1]
          ELSE resolve(g, res.game_data, res.next_phase, ps, max_auto - 1, n + 1)
  ELSE [game_data |-> gd, phase |-> ph, game_over |-> NoResult, raised |-> None,
        autos |-> n]

\* apply_action_and_resolve: the action, then the auto-resolve phases
apply_action_and_resolve(g, gd, ph, a, ps) ==
  LET res == apply_action(g, gd, ph, a, ps)
  IN IF res.raised # None \/ res.game_over # NoResult
     THEN [game_data |-> res.game_data, phase |-> res.next_phase,
           game_over |-> res.game_over, raised |-> res.raised, autos |-> 0]
     ELSE resolve(g, res.game_data, res.next_phase, ps, AUTO_CAP, 0)


\* plugin.get_valid_actions: the payloads the plugin accepts from the player
get_valid_actions(g, gd, ph, pid) ==
  {pl \in Payloads :
     validate_action(g, gd, ph, [action_type |-> ph.name, player_id |-> pid,
                                 payload |-> pl]) = None}

(* ------------------------ engine/bot_strategy.py ---------------------- *)
\* get_strategy: the strategy of the name, or ValueError
get_strategy(bot_id) ==
  IF bot_id \in STRATEGY_FACTORIES THEN bot_id ELSE "ValueError"

(* ---------------------------- engine/mcts.py -------------------------- *)
\* action payloads: a tile placement with the meeple spots it offers, a meeple
\* placement, a skip, and the empty dict
\* where the open positions of the board lie, and the spots of a tile, in the
\* order the plugin finds them
Position(i) ==
  CASE i = 1 -> <<0, 0 - 1>>
    [] i = 2 -> <<0 - 2, 0>>
    [] i = 3 -> <<1, 1>>
    [] i = 4 -> <<0, 3>>
    [] OTHER -> <<i, 0 - i>>
\* a spot name, split at its underscores: "field_NE_NW", "city_N", ...
Spot(i) ==
  CASE i = 1 -> <<"field", "NE", "NW">>
    [] i = 2 -> <<"city", "N">>
    [] i = 3 -> <<"road", "S">>
    [] i = 4 -> <<"garden", "E">>
    [] i = 5 -> <<"monastery">>
    [] OTHER -> <<"tower", "W">>
TilePlacement(x, spots) ==
  [kind |-> "tile", x |-> Position(x)[1], y |-> Position(x)[2], spot |-> <<>>,
   meeple_spots |-> spots]
MeepleSpot(x) == [kind |-> "meeple", x |-> 0, y |-> 0, spot |-> Spot(x), meeple_spots |-> FALSE]
SkipMeeple == [kind |-> "skip", x |-> 0, y |-> 0, spot |-> <<>>, meeple_spots |-> FALSE]
EmptyDict == [kind |-> "empty", x |-> 0, y |-> 0, spot |-> <<>>, meeple_spots |-> FALSE]

\* the players of the position searched, in seat order
SearchPlayers == <<"p1", "p2">>
NoneLeft == [p \in SeqSet(SearchPlayers) |-> 0]

\* CarcassonnePlugin._get_valid_tile_placements: the open positions the tile
\* fits, each with the spots a player who still has a meeple may take
CarcTilePlacements(gd, pid) ==
  [i \in 1..gd.placements |->
     TilePlacement(gd.placements + 1 - i, gd.meeple_supply[pid] > 0)]

\* CarcassonnePlugin._get_valid_meeple_placements: the spots of the tile placed
\* that can_place_meeple allows, then the skip
CarcMeeplePlacements(gd, pid) ==
  (IF gd.meeple_supply[pid] > 0 THEN [i \in 1..gd.placements |-> MeepleSpot(i)] ELSE <<>>)
  \o <<SkipMeeple>>

\* CarcassonnePlugin.get_valid_actions
CarcValidActions(gd, ph, pid) ==
  CASE ph.name = "place_tile" -> CarcTilePlacements(gd, pid)
    [] ph.name = "place_meeple" -> CarcMeeplePlacements(gd, pid)
    [] OTHER -> <<>>

\* EinsteinDojoPlugin.get_valid_actions
DojoValidActions(gd, ph, pid) ==
  IF ph.name # "place_tile" THEN <<>>
  ELSE IF pid # ph.expected THEN <<>>
  ELSE IF gd.tiles_remaining[pid] <= 0 THEN <<>>
  ELSE [i \in 1..gd.placements |-> TilePlacement(gd.placements + 1 - i, FALSE)]

\* plugin.get_valid_actions, as the list of payloads it returns
plugin_get_valid_actions(g, gd, ph, pid) ==
  IF g = "carcassonne" THEN CarcValidActions(gd, ph, pid) ELSE DojoValidActions(gd, ph, pid)

\* _get_acting_player
get_acting_player(ph, ps) ==
  IF ph.expected # None THEN ph.expected
  ELSE IF ph.player_index # 0 /\ ph.player_index - 1 < Len(ps) THEN ps[ph.player_index]
  ELSE None

\* _action_key: a placement is named by its position, whatever spots it offers
action_key(a) == [a EXCEPT !.meeple_spots = FALSE]

\* _MEEPLE_SPOT_PRIORITY.get(prefix, 5)
MEEPLE_SPOT_PRIORITY(prefix) ==
  CASE prefix = "city" -> 0
    [] prefix = "monastery" -> 1
    [] prefix = "road" -> 2
    [] prefix = "field" -> 3
    [] OTHER -> 5
Abs(n) == IF n < 0 THEN 0 - n ELSE n
\* a key that puts every action on one level
flat_sort_key(a) == <<5>>
\* _action_sort_key: the skip, else a meeple by the prefix of its spot, else a
\* placement by its distance from the origin
action_sort_key(a) ==
  CASE a.kind = "skip" -> <<10>>
    [] a.kind = "meeple" -> <<1, MEEPLE_SPOT_PRIORITY(Head(a.spot))>>
    [] a.kind = "tile" -> <<0, Abs(a.x) + Abs(a.y)>>
    [] OTHER -> <<5>>
\* the order of tuples
KeyLess(k, l) ==
  \/ k[1] < l[1]
  \/ /\ k[1] = l[1]
     /\ IF Len(k) > 1 /\ Len(l) > 1 THEN k[2] < l[2] ELSE Len(k) < Len(l)

\* list.sort(key=_action_sort_key), which is stable
RECURSIVE InsertSorted(_, _)
InsertSorted(a, s) ==
  IF s = <<>> THEN <<a>>
  ELSE IF KeyLess(action_sort_key(Head(s)), action_sort_key(a))
  THEN <<Head(s)>> \o InsertSorted(a, Tail(s))
  ELSE <<a>> \o s
RECURSIVE sort(_)
sort(s) == IF s = <<>> THEN <<>> ELSE InsertSorted(Head(s), sort(Tail(s)))

\* int(sqrt(n))
Isqrt(n) == CHOOSE r \in 0..n : r * r <= n /\ (r + 1) * (r + 1) > n
\* _max_children, pw_alpha being counted in halves: 0, 0.5 or 1
max_children(visit_count, pw_c, pw_alpha) ==
  LET v == IF visit_count > 1 THEN visit_count ELSE 1
      n == CASE pw_alpha = 0 -> pw_c
             [] pw_alpha = 1 -> Isqrt(pw_c * pw_c * v)
             [] OTHER -> pw_c * v
  IN IF n > 1 THEN n ELSE 1

\* a limit that lets one child more in
limit_one_more(node, pw_c, pw_alpha) ==
  IF node.untried_actions = <<>> THEN TRUE
  ELSE Len(node.children) > max_children(node.visit_count, pw_c, pw_alpha)
\* _at_widening_limit
at_widening_limit(node, pw_c, pw_alpha) ==
  IF node.untried_actions = <<>> THEN TRUE
  ELSE Len(node.children) >= max_children(node.visit_count, pw_c, pw_alpha)

\* MCTSNode(action_taken=None, parent=None): the root of a tree
MCTSRoot == [children |-> <<>>, untried_actions |-> <<>>, expanded |-> FALSE, visit_count |-> 0]

\* _run_one_iteration, seen from the root: either the root is at its widening
\* limit and the iteration goes down into the child of the best value (pick;
\* the values are those of eval_fn), or the root is expanded by its first
\* untried action; backpropagation then counts one visit on the way up
run_one_iteration(root, a, pick) ==
  IF root.children # <<>> /\ at_widening_limit(root, a.pw_c, a.pw_alpha)
  THEN [root EXCEPT !.visit_count = @ + 1, !.children[pick].visit_count = @ + 1]
  ELSE LET acting_pid == get_acting_player(a.phase, [i \in 1..Len(a.players) |->
                                                       a.players[i].player_id])
           node == IF root.expanded THEN root
                   ELSE [root EXCEPT !.expanded = TRUE,
                                     !.untried_actions =
                                        IF acting_pid # None
                                        THEN sort(plugin_get_valid_actions(
                                                    a.game, a.game_data, a.phase, acting_pid))
                                        ELSE <<>>]
       IN IF node.untried_actions # <<>> /\ ~at_widening_limit(node, a.pw_c, a.pw_alpha)
          THEN [node EXCEPT !.untried_actions = Tail(@),
                            !.children = Append(@, [action_taken |-> Head(node.untried_actions),
                                                    visit_count |-> 1]),
                            !.visit_count = @ + 1]
          ELSE [node EXCEPT !.visit_count = @ + 1]

\* the loop over root.children that fills action_map and action_visits (dicts,
\* kept in insertion order)
RECURSIVE collect(_, _)
collect(av, ch) ==
  IF ch = <<>> THEN av
  ELSE LET c == Head(ch)
           key == action_key(c.action_taken)
           at == {i \in 1..Len(av) : av[i].key = key}
           nav == IF at = {}
                  THEN Append(av, [key |-> key, action |-> c.action_taken,
                                   visits |-> c.visit_count])
                  ELSE LET i == CHOOSE i \in at : TRUE
                       IN [av EXCEPT ![i].action = c.action_taken,
                                     ![i].visits = @ + c.visit_count]
       IN collect(nav, Tail(ch))

last_best_action(av) ==
  LET i == CHOOSE i \in 1..Len(av) :
             /\ \A j \in 1..Len(av) : av[j].visits <= av[i].visits
             /\ \A j \in (i + 1)..Len(av) : av[j].visits < av[i].visits
  IN av[i].action
\* action_map[max(action_visits, key=...)]: the first key of the most visits
best_action(av) ==
  LET i == CHOOSE i \in 1..Len(av) :
             /\ \A j \in 1..Len(av) : av[j].visits <= av[i].visits
             /\ \A j \in 1..(i - 1) : av[j].visits < av[i].visits
  IN av[i].action

\* 1.0, the values of a search being counted in tenths
One == 10
\* the values eval_fn returns for the positions of a search
EvalValues == {0, 3, One}

\* MCTSNode(action_taken, parent, acting_player); a node is known by its place
\* in the list of the nodes of its tree, and untried_actions None is expanded
\* FALSE
MCTSNode(action_taken, parent, acting_player) ==
  [action_taken |-> action_taken, parent |-> parent, acting_player |-> acting_player,
   children |-> <<>>, untried_actions |-> <<>>, expanded |-> FALSE,
   visit_count |-> 0, total_value |-> 0]

\* _apply_node_action: the action of the node, which get_valid_actions listed,
\* applied to the simulation state
apply_node_action(g, st, node, ps) ==
  LET r == apply_action_and_resolve(g, st.game_data, st.phase,
                                    [action_type |-> st.phase.name,
                                     player_id |-> node.acting_player,
                                     payload |-> "good"], ps)
  IN [game_data |-> r.game_data, phase |-> r.phase, game_over |-> r.game_over]

\* _terminal_value
terminal_value(st, player_id) ==
  IF player_id \in SeqSet(st.game_over.winners)
  THEN (IF Len(st.game_over.winners) = 1 THEN One ELSE 8)
  ELSE 0

\* a walk to the root that gives every node the value as it is
RECURSIVE backpropagate_same_value(_, _, _, _)
backpropagate_same_value(nodes, n, value, searching_player) ==
  IF n = 0 THEN nodes
  ELSE backpropagate_same_value([nodes EXCEPT ![n].visit_count = @ + 1,
                                              ![n].total_value = @ + value],
                                nodes[n].parent, value, searching_player)
\* _backpropagate, from the node n up to the root
RECURSIVE backpropagate(_, _, _, _)
backpropagate(nodes, n, value, searching_player) ==
  IF n = 0 THEN nodes
  ELSE backpropagate(
         [nodes EXCEPT ![n].visit_count = @ + 1,
                       ![n].total_value =
                          @ + IF nodes[n].acting_player \in {None, searching_player}
                              THEN value ELSE One - value],
         nodes[n].parent, value, searching_player)

\* the arguments of mcts_search: a position of either game, the searching
\* player and the parameters; time is counted in 1/num_determinizations ticks
SearchPhases(g) ==
  IF g = "carcassonne"
  THEN {Phase("place_tile", FALSE, "p1", 1), Phase("place_meeple", FALSE, "p1", 1),
        Phase("draw_tile", TRUE, None, 1)}
  ELSE {Phase("place_tile", FALSE, "p1", 1), Phase("score_check", TRUE, None, 1)}
SearchGameData(g) ==
  IF g = "carcassonne"
  THEN [placements : 0..MaxActions, meeple_supply : [SeqSet(SearchPlayers) -> 0..1],
        tiles_remaining : {NoneLeft}]
  ELSE [placements : 0..MaxActions, meeple_supply : {NoneLeft},
        tiles_remaining : [SeqSet(SearchPlayers) -> 0..1]]
\* the player lists a search may be given: the players in seat order, no
\* player, the first player alone, the players out of seat order, and seat
\* indices with a gap
SearchPlayerLists ==
  {<<[player_id |-> "p1", seat_index |-> 0], [player_id |-> "p2", seat_index |-> 1]>>,
   <<>>,
   <<[player_id |-> "p1", seat_index |-> 0]>>,
   <<[player_id |-> "p2", seat_index |-> 1], [player_id |-> "p1", seat_index |-> 0]>>,
   <<[player_id |-> "p1", seat_index |-> 0], [player_id |-> "p2", seat_index |-> 2]>>}
\* GrpcMctsStrategy.choose_action, down to the remote call: the checks of the
\* player list
grpc_check_players(plist, player_id) ==
  IF plist = <<>> THEN "ValueError"
  ELSE IF player_id \notin {plist[i].player_id : i \in 1..Len(plist)} THEN "ValueError"
  ELSE IF \E i \in 1..Len(plist) : plist[i].seat_index # i - 1 THEN "ValueError"
  ELSE None
SearchArgs ==
  UNION {[game : {g}, game_data : SearchGameData(g), phase : SearchPhases(g),
          players : SearchPlayerLists,
          player_id : SeqSet(SearchPlayers), num_simulations : {1, MaxSims},
          time_limit : {0, MaxTime}, num_determinizations : 0..MaxDets,
          pw_c : {1, 2}, pw_alpha : {0, 2}] : g \in Games}

NoSearch == [pc |-> "none"]
early_return_only_if_empty(valid) == Len(valid) = 0
\* mcts_search returns at once when there are fewer than two valid actions
early_return(valid) == Len(valid) <= 1
\* mcts_search has been called with the arguments a
SearchCalled(a) ==
  [pc |-> "call", args |-> a, valid_actions |-> <<>>, sims_per_det |-> 0, now |-> 0,
   total_deadline |-> 0, det_deadline |-> 0, det_idx |-> 0, sim_i |-> 0,
   root |-> MCTSRoot, action_visits |-> <<>>, result |-> None, raised |-> None,
   iterations |-> 0, trees |-> <<>>]

(* ------------- engine/game_simulator.py, on a heap of objects ---------- *)
\* A heap is a sequence of objects and a reference is a place in it.  A
\* game_data dict holds references to its tile_bag list, its board dict and its
\* meeple_supply dict, and the values of current_tile and scores (which the
\* plugin rebinds, never changes in place).  A SimulationState holds
\* references to its game_data, its phase and its scores.
NoSim == [pc |-> "none"]

dict_copy(h, a) == [heap |-> Append(h, h[a]), ref |-> Len(h) + 1]
\* copy.deepcopy(game_data): a new dict holding new copies of what it held
deepcopy(h, a) ==
  [heap |-> h \o <<h[h[a].tile_bag], h[h[a].board], h[h[a].meeple_supply],
                   [h[a] EXCEPT !.tile_bag = Len(h) + 1, !.board = Len(h) + 2,
                                !.meeple_supply = Len(h) + 3]>>,
   ref |-> Len(h) + 4]

\* clone_state: game_data deep-copied, phase.model_copy(deep=True),
\* dict(scores); players and game_over are shared
clone_state(h, st) ==
  LET c == deepcopy(h, st.game_data)
  IN [heap |-> c.heap \o <<h[st.phase], h[st.scores]>>,
      state |-> [st EXCEPT !.game_data = c.ref, !.phase = Len(c.heap) + 1,
                           !.scores = Len(c.heap) + 2]]

\* CarcassonnePlugin.get_valid_actions, as payloads: the placements of the tile
\* in hand, or the spot of the tile placed and the skip
sim_valid_actions(h, st) ==
  LET ph == h[st.phase]
  IN IF st.game_over # NoResult THEN {}
     ELSE IF ph.name = "place_tile" THEN {[x |-> x, skip |-> FALSE] : x \in 1..MaxActions}
     ELSE IF ph.name = "place_meeple"
     THEN {[x |-> 0, skip |-> TRUE]}
          \cup (IF h[h[st.game_data].meeple_supply][ph.expected] > 0
                THEN {[x |-> 1, skip |-> FALSE]} ELSE {})
     ELSE {}

view_with_bag(h, gd, pid) ==
  [board |-> h[h[gd].board], current_tile |-> h[gd].current_tile,
   tiles_remaining |-> h[h[gd].tile_bag], meeple_supply |-> h[h[gd].meeple_supply],
   scores |-> h[gd].scores]
\* CarcassonnePlugin.get_player_view: the board (with its features and the
\* last position), the tile in hand, the number of tiles of the bag, the
\* supplies and the scores, whoever the viewer is
get_player_view(h, gd, pid) ==
  [board |-> h[h[gd].board], current_tile |-> h[gd].current_tile,
   tiles_remaining |-> Len(h[h[gd].tile_bag]), meeple_supply |-> h[h[gd].meeple_supply],
   scores |-> h[gd].scores]

\* result = plugin.apply_action(state.game_data, state.phase, action,
\* state.players), which works on game_data in place, and the assignments of
\* game_data, phase, scores and game_over to the state
sim_apply_action(h, st, payload) ==
  LET gd == st.game_data
      g == h[gd]
      ph == h[st.phase]
      n == Len(st.players)
      pid == st.players[ph.player_index]
      bag == h[g.tile_bag]
      final == [p \in DOMAIN g.scores |-> g.scores[p] + 1 - h[g.meeple_supply][p]]
      res ==
        CASE ph.name = "draw_tile" ->
               IF bag = <<>>
               THEN [heap |-> h, next_phase |-> Phase("end_game_scoring", TRUE, None, 0),
                     scores |-> g.scores, game_over |-> NoResult]
               ELSE [heap |-> [h EXCEPT ![g.tile_bag] = Tail(bag),
                                        ![gd].current_tile = Head(bag)],
                     next_phase |-> Phase("place_tile", FALSE, pid, ph.player_index),
                     scores |-> g.scores, game_over |-> NoResult]
          [] ph.name = "place_tile" ->
               [heap |-> [h EXCEPT ![g.board] = Append(@, <<g.current_tile, payload.x>>),
                                   ![gd].current_tile = None],
                next_phase |-> Phase("place_meeple", FALSE, pid, ph.player_index),
                scores |-> g.scores, game_over |-> NoResult]
          [] ph.name = "place_meeple" ->
               [heap |-> IF payload.skip THEN h
                         ELSE [h EXCEPT ![g.meeple_supply][pid] = @ - 1],
                next_phase |-> Phase("score_check", TRUE, None, ph.player_index),
                scores |-> g.scores, game_over |-> NoResult]
          [] ph.name = "score_check" ->
               [heap |-> h,
                next_phase |-> Phase("draw_tile", TRUE, None, (ph.player_index % n) + 1),
                scores |-> g.scores, game_over |-> NoResult]
          [] OTHER ->
               [heap |-> [h EXCEPT ![gd].scores = final],
                next_phase |-> Phase("game_over", FALSE, None, 0),
                scores |-> final,
                game_over |-> GameResult(TopScorers(st.players, final, 1), "normal")]
  IN [heap |-> res.heap \o <<res.next_phase, res.scores>>,
      state |-> [st EXCEPT !.phase = Len(h) + 1, !.scores = Len(h) + 2,
                           !.game_over = res.game_over]]

\* the auto-resolve loop of apply_action_and_resolve
RECURSIVE sim_resolve(_, _, _)
sim_resolve(h, st, max_auto) ==
  IF h[st.phase].auto_resolve /\ st.game_over = NoResult /\ max_auto > 0
  THEN LET r == sim_apply_action(h, st, None)
       IN sim_resolve(r.heap, r.state, max_auto - 1)
  ELSE [heap |-> h, state |-> st]

\* apply_action_and_resolve, which changes the state it is given
sim_apply_action_and_resolve(h, st, payload) ==
  LET r == sim_apply_action(h, st, payload)
  IN IF r.state.game_over # NoResult THEN r
     ELSE sim_resolve(r.heap, r.state, AUTO_CAP)

(* --------- engine/session_manager.py cleanup_stale_matches ------------- *)
\* the select and the loop of cleanup_stale_matches at the time now, ids being
\* the matches list_active_matches returned: the cutoff is the last midnight
cleanup_stale_matches(matches, ids, now) ==
  LET cutoff == now - (now % Day)
  IN [i \in DOMAIN matches |->
        IF /\ matches[i].status = "active" /\ matches[i].started_at < cutoff
           /\ i \notin ids
        THEN [matches[i] EXCEPT !.status = "abandoned", !.ended_at = now]
        ELSE matches[i]]

(* ------------------------------- state -------------------------------- *)
VARIABLES
  players,      \* GameState.players, in seat order
  game,         \* the plugin the registry returns for game_id
  policy,       \* plugin.disconnect_policy
  up,           \* the server process is running
  registered,   \* GameSessionManager._sessions holds the match
  state,        \* GameSession.state
  seq,          \* GameSession._sequence_number
  event_store,  \* GameSession._event_store: the task whose db session it wraps
  timers,       \* keys of GameSession._disconnect_timers
  lock,         \* GameSession._lock: the task holding it
  lockq,        \* GameSession._lock: the tasks waiting, first come first served
  cpu,          \* a task that has left the lock and not yet reached an await
  ctx,          \* where the engine code stands: "L" under the lock, "C" in create_session
  req,          \* the operation a waiting task will run once it has the lock
  conn,         \* per player: the WebSocket handler's position
  tpc,          \* per player: the grace timer task's position
  apc,          \* the operator's force-finish request
  cpc,          \* create_session's position
  txn,          \* per task: the events flushed to its db session, not yet committed
  openTx,       \* the tasks whose db session is open
  stored,       \* the committed rows of game_events, in commit order
  saved,        \* the state store's copy of the GameState
  dbMatch,      \* the Match row (status) and the MatchPlayer rows of the match
  oplog,        \* what the operation under the lock has emitted, in order
  lastCall,     \* the operation that has just ended, with the state before and after
  ops,          \* requests submitted so far
  crashes,      \* restarts so far
  elapsed,      \* per player: now - disconnect_ts of the last disconnect, up to Grace
  delay,        \* per player: what is left of the sleep of the grace timer
  entries,      \* _recover_disconnect_timers: the entries still to be looked at
  bots,         \* per player: Player.bot_id of a seat taken by a bot
  bpc,          \* per player: the position of the bot move task
  search,       \* one call of mcts_search: its arguments, locals and outcome
  sim,          \* simulation states and the objects they refer to
  cleanup,      \* one call of cleanup_stale_matches: the clock, the match records,
                \* the state store and the locals
  net           \* the connections of one player: the handlers, the registry of the
                \* connection manager and the session's record of the disconnect

config == <<players, game, policy, bots>>
\* the runs of the players alone are those of a Carcassonne match of three, a
\* turn of that game taking two messages
alone == game = "carcassonne" /\ Len(players) = 3
vars == <<players, game, policy, bots, bpc, up, registered, state, seq, event_store, timers,
          lock, lockq, cpu, ctx, req, conn, tpc, apc, cpc, txn, openTx, stored,
          saved, dbMatch, oplog, lastCall, ops, crashes, elapsed, delay, entries, search, sim, cleanup, net>>

WS(p) == <<"ws", p>>
TM(p) == <<"tm", p>>
ADMIN == <<"admin", "-">>
CREATE == <<"create", "-">>
RECOVER == <<"recover", "-">>
BOT(p) == <<"bot", p>>
\* schedule_bot_move_if_needed asks nobody whether a move of the bot is already
\* scheduled: a second task for the same bot
BOT2(p) == <<"bot2", p>>
BotTasks == {BOT(p) : p \in PlayerIds} \cup {BOT2(p) : p \in PlayerIds}
NoTask == <<"none", "-">>
Tasks == {WS(p) : p \in PlayerIds} \cup {TM(p) : p \in PlayerIds}
         \cup BotTasks \cup {ADMIN, CREATE, RECOVER}

PSet == SeqSet(players)

NoState ==
  [status |-> None, current_phase |-> Phase(None, FALSE, None, 0),
   game_data |-> [bag |-> 0, tiles |-> Zero(players), cur |-> 1,
                  scores |-> Zero(players), forfeited |-> <<>>],
   scores |-> Zero(players), action_number |-> 0,
   forfeited_players |-> <<>>, disconnected_players |-> <<>>]

NoSnap == [state |-> NoState, seq |-> 0, stored |-> <<>>]

IdleCtx ==
  [op |-> None, task |-> NoTask, player |-> None, payload |-> None, pc |-> "idle",
   go |-> NoResult, stage |-> None, skips |-> FALSE, after |-> "end", iters |-> 0,
   autos |-> 0, pre |-> NoSnap, applied |-> FALSE]

NoCall ==
  [op |-> None, task |-> NoTask, player |-> None, payload |-> None, error |-> None,
   applied |-> FALSE, go |-> NoResult, pre |-> NoSnap, post |-> NoSnap, log |-> <<>>]

\* phase and seen are the phase and the action_number a bot has chosen its
\* payload for
NoReq == [op |-> None, player |-> None, payload |-> None, phase |-> None, seen |-> 0]

\* every variable but the configuration, as one record: the operations below are
\* functions from this record to its next value (lastCall describes the step
\* that has just been taken, so it starts empty; fault is the slot whose code
\* has just had an exception raised by the event store)
M ==
  [up |-> up, registered |-> registered, state |-> state, seq |-> seq,
   event_store |-> event_store, timers |-> timers, lock |-> lock, lockq |-> lockq,
   cpu |-> cpu, ctx |-> ctx, req |-> req, conn |-> conn, tpc |-> tpc, apc |-> apc,
   cpc |-> cpc, txn |-> txn, openTx |-> openTx, stored |-> stored, saved |-> saved,
   dbMatch |-> dbMatch,
   oplog |-> IF \A s \in {"L", "C"} : ctx[s].op = None THEN <<>> ELSE oplog,
   lastCall |-> NoCall, ops |-> ops,
   crashes |-> crashes, elapsed |-> elapsed, delay |-> delay, entries |-> entries,
   bpc |-> bpc, fault |-> None]

Snap(m) == [state |-> m.state, seq |-> m.seq, stored |-> m.stored]

RemoveFromSeq(s, x) == SelectSeq(s, LAMBDA y : y # x)


(* ----------------------- persistence and logging ---------------------- *)
Log(m, s, kind, what) ==
  [m EXCEPT !.oplog = Append(@, [task |-> m.ctx[s].task, kind |-> kind, what |-> what])]

RECURSIVE LogEvents(_, _, _, _)
LogEvents(m, s, events, i) ==
  IF i > Len(events) THEN m
  ELSE LogEvents(Log(m, s, "append", events[i].event_type), s, events, i + 1)

\* the sequence numbers of the rows written for the match, committed or not
Numbers(rows) == {rows[i].sequence_number : i \in 1..Len(rows)}
Written(m) == Numbers(m.stored) \cup UNION {Numbers(m.txn[t]) : t \in Tasks}

\* EventStore.append_events: the rows join the db session's transaction, unless
\* uq_match_sequence rejects them; a session that is already closed never
\* commits them
append_events(m, s, persisted) ==
  IF m.event_store \notin m.openTx THEN m
  ELSE IF Numbers(persisted) \cap Written(m) # {} THEN [m EXCEPT !.fault = s]
  ELSE [m EXCEPT !.txn[m.event_store] = @ \o persisted]

\* db_session.commit() and leaving "async with db_session_factory()"
Commit(m, t) ==
  [m EXCEPT !.stored = @ \o m.txn[t], !.txn[t] = <<>>, !.openTx = @ \ {t}]
\* leaving "async with db_session_factory()" without a commit
Rollback(m, t) ==
  [m EXCEPT !.txn[t] = <<>>, !.openTx = @ \ {t}]

\* StateStore.save_state
save_state(m, s) ==
  Log([m EXCEPT !.saved = m.state], s, "save", m.state.status)

\* GameSession._broadcast_views
broadcast_views(m, s) == Log(m, s, "views", m.state.status)

\* GameSession._persist_event
persist_event(m, s, e) ==
  LET m1 == [m EXCEPT !.seq = @ + 1]
      m2 == IF m.event_store # NoTask
            THEN append_events(m1, s, <<PersistedEvent(m.seq, e)>>)
            ELSE m1
  IN IF m2.fault # None THEN m2 ELSE Log(m2, s, "append", e.event_type)

\* asyncio.Task.cancel on a grace timer: a task asleep or waiting for the lock ends
CancelTimer(m, p) ==
  IF m.tpc[p] \in {"sleep", "wait"}
  THEN [Rollback(m, TM(p)) EXCEPT !.tpc[p] = "idle", !.delay[p] = 0,
                                  !.lockq = RemoveFromSeq(@, TM(p)),
                                  !.req[TM(p)] = NoReq]
  ELSE m

RECURSIVE CancelAll(_, _)
CancelAll(m, ps) ==
  IF ps = {} THEN m
  ELSE LET p == CHOOSE q \in ps : TRUE
       IN CancelAll(CancelTimer(m, p), ps \ {p})

(* --------------------------- GameSession ------------------------------ *)
\* GameSession._start_grace_timer: the timer of the player, if any, is cancelled
\* and one that sleeps for d is started
start_grace_timer(m, p, d) ==
  [CancelTimer(m, p) EXCEPT !.timers = @ \cup {p}, !.tpc[p] = "sleep", !.delay[p] = d]

\* _validate_envelope with the turn checked before the forfeit
validate_envelope_turn_first(st, a) ==
  IF st.status # "active" THEN "GameNotActiveError"
  ELSE IF st.current_phase.expected # None /\ a.player_id # st.current_phase.expected
       THEN "NotYourTurnError"
  ELSE IF a.player_id \in SeqSet(st.forfeited_players) THEN "PlayerForfeitedError"
  ELSE None

\* GameSession._validate_envelope: the error raised, or None
validate_envelope(st, a) ==
  IF st.status # "active" THEN "GameNotActiveError"
  ELSE IF a.player_id \in SeqSet(st.forfeited_players) THEN "PlayerForfeitedError"
  ELSE IF st.current_phase.expected # None /\ a.player_id # st.current_phase.expected
       THEN "NotYourTurnError"
  ELSE None

\* GameSession._apply_result up to its first await: the state is updated, the
\* events are numbered and handed to the event store
apply_result(m, s, res) ==
  LET st == [m.state EXCEPT !.game_data = res.game_data,
                            !.current_phase = res.next_phase,
                            !.scores = res.scores,
                            !.action_number = @ + 1]
      persisted == [i \in 1..Len(res.events) |-> PersistedEvent(m.seq + i - 1, res.events[i])]
      m1 == [m EXCEPT !.state = st, !.seq = @ + Len(res.events),
                      !.ctx[s].pc = "applied", !.ctx[s].go = res.game_over]
      m2 == IF Len(persisted) > 0 /\ m.event_store # NoTask
            THEN append_events(m1, s, persisted) ELSE m1
  IN IF m2.fault # None THEN m2 ELSE LogEvents(m2, s, res.events, 1)

\* GameSession._sync_match_to_db: the status of the Match row, and the score
\* and the result of every MatchPlayer row (final_scores being the scores of
\* the state); synced keeps the result the rows were written for
sync_match_to_db(db, st, result) ==
  [status |-> st.status, synced |-> result,
   players |-> [p \in DOMAIN db.players |->
                  [score |-> st.scores[p],
                   result |-> IF result.reason = "abandonment" THEN "abandoned"
                              ELSE IF p \in SeqSet(st.forfeited_players) THEN "forfeit"
                              ELSE IF p \in SeqSet(result.winners) THEN "win"
                              ELSE "loss"]]]

\* GameSession._finish_game up to its first await
finish_game(m, s, result) ==
  [m EXCEPT !.state.status = IF result.reason = "abandonment" THEN "abandoned" ELSE "finished",
            !.ctx[s].pc = "fin1", !.ctx[s].go = result]

\* GameSession._auto_resolve_phase: the synthetic action
synthetic(st) ==
  [action_type |-> st.current_phase.name,
   player_id |-> IF st.current_phase.player_index # 0
                    /\ st.current_phase.player_index - 1 < Len(players)
                 THEN players[st.current_phase.player_index] ELSE "system",
   payload |-> None]

\* the loop condition of GameSession._run_auto_resolve
run_auto_resolve(st) ==
  st.current_phase.auto_resolve /\ st.status = "active"

\* the loop condition of GameSession._skip_forfeited_player_turn
skip_forfeited_player_turn(st, iterations) ==
  /\ st.status = "active"
  /\ st.current_phase.expected # None
  /\ ~st.current_phase.auto_resolve
  /\ iterations < Len(players) + 1
  /\ st.current_phase.expected \in SeqSet(st.forfeited_players)

\* asyncio.create_task(self._execute_bot_move(session, p.player_id)): one more
\* task of the bot sleeps ("third" marks a third task, which no run below has)
create_task(m, p) ==
  IF m.bpc[BOT(p)] = "idle" THEN [m EXCEPT !.bpc[BOT(p)] = "sleep"]
  ELSE IF m.bpc[BOT2(p)] = "idle" THEN [m EXCEPT !.bpc[BOT2(p)] = "sleep"]
  ELSE [m EXCEPT !.bpc[BOT2(p)] = "third"]

\* BotRunner.schedule_bot_move_if_needed: a task for the move of the expected
\* player is created when that player is a bot
schedule_bot_move_if_needed(m) ==
  LET ph == m.state.current_phase
  IN IF /\ m.state.status = "active" /\ ~ph.auto_resolve
        /\ ph.expected \in PlayerIds /\ bots[ph.expected] # None
     THEN create_task(m, ph.expected)
     ELSE m

\* the operation ends: the lock is released and the caller's code runs to its
\* next await (commit on a normal return, the exception handler otherwise).
\* how is None for a normal return, "return" for a return that skips the commit,
\* and the name of the exception otherwise
EndOp(m, s, how) ==
  LET c == m.ctx[s]
      t == c.task
      said == IF c.op = "action" /\ how # None THEN Log(m, s, "error", how) ELSE m
      m0 == [said EXCEPT !.ctx[s] = IdleCtx, !.lock = IF s = "L" THEN NoTask ELSE @]
      done == IF how = None THEN Commit(m0, t) ELSE Rollback(m0, t)
      fin == CASE c.op = "action" ->
                    IF t \in BotTasks THEN [done EXCEPT !.bpc[t] = "idle"]
                    ELSE [done EXCEPT !.conn[c.player] = "open"]
               [] c.op = "reconnect" ->
                    [done EXCEPT !.conn[c.player] = IF how = None THEN "open" ELSE "closed"]
               [] c.op = "disconnect" -> [done EXCEPT !.conn[c.player] = "closed"]
               [] c.op = "expire" -> [done EXCEPT !.tpc[c.player] = "idle"]
               [] c.op = "admin" ->
                    IF how # None THEN [done EXCEPT !.apc = "done"]
                    ELSE [done EXCEPT !.registered = FALSE, !.saved = NoState,
                                      !.apc = "done"]
               [] c.op = "recover" -> done
               [] OTHER -> [done EXCEPT !.cpc = "done"]
      next == IF how = None /\ c.op \in {"action", "create", "expire", "recover"}
              THEN schedule_bot_move_if_needed(fin) ELSE fin
  IN [next EXCEPT !.lastCall = [op |-> c.op, task |-> t, player |-> c.player,
                                payload |-> c.payload, error |-> how,
                                applied |-> c.applied, go |-> c.go, pre |-> c.pre,
                                post |-> Snap(fin), log |-> fin.oplog]]

\* what follows a completed _apply_result or _finish_game: the auto-resolve
\* loop, then the forfeit-skip loop, then the end of the operation
Continue(m, s) ==
  LET c == m.ctx[s]
      st == m.state
  IN IF c.stage = "auto" /\ run_auto_resolve(st)
     THEN LET res == apply_action(game, st.game_data, st.current_phase, synthetic(st), players)
          IN IF res.raised # None THEN EndOp(m, s, res.raised)
             ELSE apply_result([m EXCEPT !.ctx[s].autos = @ + 1], s, res)
     ELSE IF c.skips /\ skip_forfeited_player_turn(st, c.iters)
     THEN LET res == on_player_forfeit(game, st.game_data, st.current_phase,
                                       st.current_phase.expected, players)
              m1 == [m EXCEPT !.ctx[s].iters = @ + 1, !.ctx[s].stage = "auto",
                              !.ctx[s].autos = 0]
          IN IF res = NoTransition(st.game_data, st.current_phase)
             THEN EndOp(IF c.after = "views" THEN broadcast_views(m1, s) ELSE m1, s, None)
             ELSE IF res.raised # None THEN EndOp(m1, s, res.raised)
             ELSE apply_result(m1, s, res)
     ELSE IF c.op = "create" THEN [m EXCEPT !.ctx[s].pc = "commit"]
     ELSE EndOp(IF c.after = "views" THEN broadcast_views(m, s) ELSE m, s, None)

\* the step's outcome becomes the next state; an exception raised by the event
\* store ends the operation that was running
Assign(m) ==
  \E n \in {IF m.fault = None THEN m
             ELSE EndOp([m EXCEPT !.fault = None], m.fault, "IntegrityError")} :
  /\ up' = n.up /\ registered' = n.registered /\ state' = n.state /\ seq' = n.seq
  /\ event_store' = n.event_store /\ timers' = n.timers /\ lock' = n.lock
  /\ lockq' = n.lockq /\ cpu' = n.cpu /\ ctx' = n.ctx /\ req' = n.req
  /\ conn' = n.conn /\ tpc' = n.tpc /\ apc' = n.apc /\ cpc' = n.cpc /\ txn' = n.txn
  /\ openTx' = n.openTx /\ stored' = n.stored /\ saved' = n.saved
  /\ dbMatch' = n.dbMatch /\ oplog' = n.oplog /\ lastCall' = n.lastCall
  /\ ops' = n.ops /\ crashes' = n.crashes
  /\ elapsed' = n.elapsed /\ delay' = n.delay /\ entries' = n.entries
  /\ bpc' = n.bpc
  /\ UNCHANGED <<config, search, sim, cleanup, net>>

\* GameSession.handle_action from the lock to the first await
handle_action(m, p, payload) ==
  LET st == m.state
      a == [action_type |-> st.current_phase.name, player_id |-> p, payload |-> payload]
      envelope == validate_envelope(st, a)
      res == apply_action(game, st.game_data, st.current_phase, a, players)
  IN IF envelope # None THEN EndOp(m, "L", envelope)
     ELSE IF validate_action(game, st.game_data, st.current_phase, a) # None
     THEN EndOp(m, "L", "InvalidActionError")
     ELSE IF res.raised # None THEN EndOp(m, "L", res.raised)
     ELSE apply_result([m EXCEPT !.ctx["L"].applied = TRUE, !.ctx["L"].stage = "auto",
                                 !.ctx["L"].skips = TRUE], "L", res)

\* the disconnect that is recorded again for a player already recorded
disconnect_again(m, p) ==
  IF \/ m.state.status # "active"
     \/ p \in SeqSet(m.state.forfeited_players)
  THEN EndOp(m, "L", None)
  ELSE LET m1 == [m EXCEPT !.state.disconnected_players = Append(@, p),
                           !.elapsed[p] = 0, !.ctx["L"].pc = "dc1"]
       IN persist_event(m1, "L", Event("player_disconnected", p))

\* GameSession.handle_player_disconnect from the lock to the first await
handle_player_disconnect(m, p) ==
  IF \/ m.state.status # "active"
     \/ p \in SeqSet(m.state.forfeited_players)
     \/ p \in SeqSet(m.state.disconnected_players)
  THEN EndOp(m, "L", None)
  ELSE LET m1 == [m EXCEPT !.state.disconnected_players = Append(@, p),
                           !.elapsed[p] = 0, !.ctx["L"].pc = "dc1"]
       IN persist_event(m1, "L", Event("player_disconnected", p))

\* the reconnect that leaves the grace timer running
reconnect_keeps_timer(m, p) ==
  IF p \notin SeqSet(m.state.disconnected_players) THEN EndOp(m, "L", None)
  ELSE LET m1 == [m EXCEPT !.state.disconnected_players = RemoveFromSeq(@, p),
                           !.ctx["L"].pc = "rc1"]
       IN persist_event(m1, "L", Event("player_reconnected", p))

\* GameSession.handle_player_reconnect from the lock to the first await
handle_player_reconnect(m, p) ==
  IF p \notin SeqSet(m.state.disconnected_players) THEN EndOp(m, "L", None)
  ELSE LET m1 == [CancelTimer(Log(m, "L", "cancel", m.tpc[p]), p) EXCEPT !.timers = @ \ {p},
                                            !.state.disconnected_players = RemoveFromSeq(@, p),
                                            !.ctx["L"].pc = "rc1"]
       IN persist_event(m1, "L", Event("player_reconnected", p))

\* GameSession._abandon_game
abandon_game(m, s) ==
  LET m1 == persist_event(m, s, Event("game_abandoned", None))
  IN IF m1.fault # None THEN m1
     ELSE finish_game(m1, s, GameResult(<<>>, "abandonment"))

\* the players still in the match once p is gone
active_players(st, p) == PSet \ (SeqSet(st.forfeited_players) \cup {p})

\* the policy consulted before the players left are counted
decide_policy_first(st, p) ==
  IF policy # DISCONNECT_POLICY_FORFEIT_PLAYER THEN "abandon"
  ELSE IF Cardinality(active_players(st, p)) = 1 THEN "last_man"
  ELSE IF Cardinality(active_players(st, p)) = 0 THEN "abandon"
  ELSE "forfeit"

\* the policy left out: whoever leaves while two others stay is forfeited
decide_without_policy(st, p) ==
  IF Cardinality(active_players(st, p)) = 1 THEN "last_man"
  ELSE IF Cardinality(active_players(st, p)) = 0 THEN "abandon"
  ELSE "forfeit"

\* GameSession._handle_forfeit_or_abandon: which way it goes
decide(st, p) ==
  IF Cardinality(active_players(st, p)) <= 1
  THEN (IF Cardinality(active_players(st, p)) = 1 THEN "last_man" ELSE "abandon")
  ELSE IF policy # DISCONNECT_POLICY_FORFEIT_PLAYER THEN "abandon"
  ELSE "forfeit"

\* the forfeit that leaves the player among the disconnected
forfeit_still_disconnected(st, p) ==
  [st EXCEPT !.forfeited_players = Append(@, p),
             !.game_data.forfeited = Append(st.forfeited_players, p)]

\* GameSession._handle_forfeit_or_abandon: the player is marked as forfeited
forfeit(st, p) ==
  [st EXCEPT !.forfeited_players = Append(@, p),
             !.disconnected_players = RemoveFromSeq(@, p),
             !.game_data.forfeited = Append(st.forfeited_players, p)]

\* GameSession._handle_forfeit_or_abandon from its call to the first await
handle_forfeit_or_abandon(m, s, p) ==
  LET way == decide(m.state, p)
      m1 == [m EXCEPT !.state = forfeit(m.state, p)]
  IN CASE way = "last_man" ->
            LET winner == CHOOSE w \in active_players(m.state, p) : TRUE
            IN persist_event([m1 EXCEPT !.ctx[s].pc = "lm1",
                                        !.ctx[s].go = GameResult(<<winner>>, "forfeit")],
                             s, Event("player_forfeited", p))
       [] way = "abandon" -> abandon_game(m, s)
       [] OTHER ->
            persist_event([m1 EXCEPT !.ctx[s].pc = "ff1", !.ctx[s].stage = "skip",
                                     !.ctx[s].skips = TRUE, !.ctx[s].after = "views"],
                          s, Event("player_forfeited", p))

\* GameSession._grace_period_expired from the lock to the first await
grace_period_expired(m, p) ==
  IF m.state.status # "active" \/ p \notin SeqSet(m.state.disconnected_players)
  THEN EndOp(m, "L", "return")
  ELSE handle_forfeit_or_abandon([m EXCEPT !.event_store = TM(p), !.timers = @ \ {p}], "L", p)

\* admin_force_finish from the lock to the first await
admin_force_finish(m) ==
  finish_game([m EXCEPT !.event_store = ADMIN], "L", GameResult(<<>>, "admin_terminated"))

\* _recover_disconnect_timers: remaining = grace period - (now - disconnect_ts)
remaining_time(m, p) == Grace - m.elapsed[p]

\* GameSessionManager._recover_disconnect_timers from the entry at the head of q
\* to the first await, or to its end: a player whose grace period is over is
\* forfeited under the lock if the match is active, the other players get a
\* timer for what remains
RECURSIVE recover_disconnect_timers(_, _)
recover_disconnect_timers(m, q) ==
  IF q = <<>> THEN schedule_bot_move_if_needed([m EXCEPT !.cpu = NoTask, !.entries = <<>>])
  ELSE LET p == Head(q)
           remaining == remaining_time(m, p)
           m0 == [m EXCEPT !.entries = Tail(q), !.cpu = RECOVER, !.lock = RECOVER,
                           !.event_store = RECOVER, !.openTx = @ \cup {RECOVER},
                           !.ctx["L"] = [IdleCtx EXCEPT !.op = "recover", !.task = RECOVER,
                                                        !.player = p, !.pre = Snap(m)]]
           n == IF m.state.status = "active" THEN handle_forfeit_or_abandon(m0, "L", p)
                ELSE EndOp(m0, "L", None)
       IN IF remaining > 0
          THEN recover_disconnect_timers(start_grace_timer(m, p, remaining), Tail(q))
          ELSE IF n.fault = None /\ n.ctx["L"].pc = "idle"
          THEN recover_disconnect_timers(n, Tail(q))
          ELSE n

\* what the plugin's validation makes of the payload of r in the state st: a
\* payload that a bot has chosen for another phase lacks the fields this phase
\* reads (_validate_place_tile: x, y, rotation; _validate_place_meeple: skip,
\* meeple_spot), one chosen for an earlier state of the same phase may still
\* be legal
payload_at(st, r) ==
  IF r.phase \notin {None, st.current_phase.name} THEN "bad" ELSE r.payload

\* the task t takes the lock and runs its operation to the first await
StartOp(m, t, r) ==
  LET m0 == [m EXCEPT !.lock = t, !.req[t] = NoReq,
                      !.lockq = RemoveFromSeq(@, t),
                      !.oplog = SelectSeq(@, LAMBDA e : e.task # t),
                      !.ctx["L"] = [IdleCtx EXCEPT !.op = r.op, !.task = t,
                                                   !.player = r.player,
                                                   !.payload = r.payload,
                                                   !.pre = Snap(m)]]
  IN CASE r.op = "action" -> handle_action(m0, r.player, payload_at(m.state, r))
       [] r.op = "disconnect" -> handle_player_disconnect(m0, r.player)
       [] r.op = "reconnect" -> handle_player_reconnect(m0, r.player)
       [] r.op = "expire" ->
            grace_period_expired([m0 EXCEPT !.tpc[r.player] = "run"], r.player)
       [] OTHER -> admin_force_finish([m0 EXCEPT !.apc = "run"])

\* asyncio.Lock.acquire: at once when the lock is free and nobody waits, else
\* the task joins the queue
TryLock(m, t, r) ==
  IF m.lock = NoTask /\ m.lockq = <<>> THEN StartOp(m, t, r)
  ELSE [m EXCEPT !.lockq = Append(@, t), !.req[t] = r]

\* the engine code in slot s resumes: the I/O it awaited completes and the code
\* runs to its next await
Resume(m, s) ==
  LET c == m.ctx[s]
  IN CASE c.pc = "applied" ->
            LET m1 == broadcast_views(save_state(m, s), s)
            IN IF c.go # NoResult THEN finish_game(m1, s, c.go) ELSE Continue(m1, s)
       [] c.pc = "fin1" ->
            LET m1 == Log(save_state(m, s), s, "game_over", c.go.reason)
            IN [CancelAll(m1, m1.timers) EXCEPT !.timers = {}, !.ctx[s].pc = "fin2"]
       [] c.pc = "fin2" ->
            Continue([m EXCEPT !.dbMatch = sync_match_to_db(@, m.state, c.go)], s)
       [] c.pc = "commit" -> EndOp(m, s, None)
       [] c.pc = "lm1" -> finish_game(Log(m, s, "player_forfeited", c.player), s, c.go)
       [] c.pc = "ff1" ->
            Continue(Log(save_state(m, s), s, "player_forfeited", c.player), s)
       [] c.pc = "dc1" ->
            LET m1 == broadcast_views(Log(save_state(m, s), s, "player_disconnected", c.player), s)
            IN [m1 EXCEPT !.ctx[s] = IdleCtx, !.lock = NoTask, !.cpu = c.task]
       [] OTHER ->
            EndOp(broadcast_views(Log(save_state(m, s), s, "player_reconnected", c.player), s),
                  s, None)

(* ------------------------------ actions ------------------------------- *)
\* the application has started and no match has been created; C is what the
\* match may be and B what its seats may be
InitMatch(C, B) ==
  /\ \E c \in C : game = c[1] /\ players = c[2] /\ policy = c[3]
  /\ bots \in B
  /\ bpc = [t \in BotTasks |-> "idle"]
  /\ up = TRUE
  /\ registered = FALSE
  /\ state = NoState
  /\ seq = 0
  /\ event_store = NoTask
  /\ timers = {}
  /\ lock = NoTask
  /\ lockq = <<>>
  /\ cpu = NoTask
  /\ ctx = [s \in {"L", "C"} |-> IdleCtx]
  /\ req = [t \in Tasks |-> NoReq]
  /\ conn = [p \in PlayerIds |-> "closed"]
  /\ tpc = [p \in PlayerIds |-> "idle"]
  /\ apc = "idle"
  /\ cpc = "init"
  /\ txn = [t \in Tasks |-> <<>>]
  /\ openTx = {}
  /\ stored = <<>>
  /\ saved = NoState
  /\ dbMatch = [status |-> "active", synced |-> NoResult,
                players |-> [p \in PSet |-> [result |-> None, score |-> 0]]]
  /\ oplog = <<>>
  /\ lastCall = NoCall
  /\ ops = 0
  /\ crashes = 0
  /\ elapsed = [p \in PlayerIds |-> 0]
  /\ delay = [p \in PlayerIds |-> 0]
  /\ entries = <<>>

\* ... and no search is under way
InitOf(C, B) == InitMatch(C, B) /\ search = NoSearch /\ sim = NoSim /\ cleanup = NoSim /\ net = NoSim

\* a match of human players
Init == InitOf(Configs, {NoBots})

\* a task may run: the process is up and no task is between two awaits
Free == up /\ cpu = NoTask
\* one more request may come
Budget == ops < (IF alone THEN MaxOps + 1 ELSE MaxOps)
\* one more task may ask for the lock
Room == Len(lockq) < (IF Len(players) = 2 THEN MaxWaiters + 1 ELSE MaxWaiters)

\* GameSessionManager.create_session up to the first await of the initial
\* auto-resolve: the initial events are committed, the state is saved, the
\* session is registered
CreateSession ==
  /\ Free /\ cpc = "init"
  /\ LET init == create_initial_state(game, players)
         st == [NoState EXCEPT !.status = "active", !.current_phase = init.phase,
                               !.game_data = init.game_data]
         persisted == [i \in 1..Len(init.events) |-> PersistedEvent(i - 1, init.events[i])]
         m1 == [M EXCEPT !.state = st, !.seq = Len(persisted), !.stored = persisted,
                         !.saved = st, !.registered = TRUE, !.event_store = CREATE,
                         !.cpc = "run"]
         m2 == [m1 EXCEPT !.openTx = @ \cup {CREATE},
                          !.ctx["C"] = [IdleCtx EXCEPT !.op = "create", !.task = CREATE,
                                                       !.stage = "auto", !.autos = 1,
                                                       !.pre = Snap(m1)]]
     IN IF st.current_phase.auto_resolve
        THEN Assign(apply_result(m2, "C",
                      apply_action(game, st.game_data, st.current_phase, synthetic(st), players)))
        ELSE Assign(EndOp(m2, "C", None))

\* game_websocket up to the message loop
Connect(p) ==
  /\ Free /\ registered /\ p \in PSet /\ conn[p] = "closed" /\ bots[p] = None
  /\ alone => cpc = "done"
  /\ p \in SeqSet(state.disconnected_players) => Room
  /\ IF p \in SeqSet(state.disconnected_players)
     THEN Assign(TryLock([M EXCEPT !.conn[p] = "busy", !.openTx = @ \cup {WS(p)},
                                   !.event_store = WS(p)],
                         WS(p), [NoReq EXCEPT !.op = "reconnect", !.player = p]))
     ELSE Assign([M EXCEPT !.conn[p] = "open"])

\* game_websocket: an ACTION message arrives
Submit(p, payload) ==
  /\ Free /\ conn[p] = "open" /\ Budget /\ Room
  /\ Assign(TryLock([M EXCEPT !.conn[p] = "busy", !.openTx = @ \cup {WS(p)},
                              !.event_store = WS(p), !.ops = @ + 1],
                    WS(p), [NoReq EXCEPT !.op = "action", !.player = p, !.payload = payload]))

\* game_websocket: the connection drops (WebSocketDisconnect)
Drop(p) ==
  /\ Free /\ conn[p] = "open" /\ Budget /\ Room
  /\ IF state.status = "active"
     THEN Assign(TryLock([M EXCEPT !.conn[p] = "busy", !.openTx = @ \cup {WS(p)},
                                   !.event_store = WS(p), !.ops = @ + 1],
                         WS(p), [NoReq EXCEPT !.op = "disconnect", !.player = p]))
     ELSE Assign([M EXCEPT !.conn[p] = "closed", !.ops = @ + 1])

\* GameSession._start_grace_timer, called by handle_player_disconnect after the
\* lock is released, and the handler's commit
StartGraceTimer(p) ==
  /\ up /\ cpu = WS(p)
  /\ Assign([Commit(start_grace_timer(M, p, Grace), WS(p)) EXCEPT !.conn[p] = "closed",
                                                                  !.cpu = NoTask])

\* GameSession._grace_period_expired: the sleep is over
TimerFire(p) ==
  /\ Free /\ tpc[p] = "sleep" /\ Room
  /\ Assign(TryLock([M EXCEPT !.tpc[p] = "wait", !.delay[p] = 0,
                              !.openTx = @ \cup {TM(p)}],
                    TM(p), [NoReq EXCEPT !.op = "expire", !.player = p]))

\* asyncio.Lock: the lock is free and the first waiter runs
Acquire(t) ==
  /\ Free /\ lock = NoTask /\ lockq # <<>> /\ t = Head(lockq)
  /\ Assign(StartOp(M, t, req[t]))

\* the engine code suspended in slot s runs on
Step(s) ==
  /\ Free /\ ctx[s].pc # "idle" /\ ctx[s].autos <= AUTO_CAP
  /\ Assign(Resume(M, s))

\* admin_force_finish: the Match row is read
AdminRead ==
  /\ Free /\ apc = "idle" /\ cpc # "init" /\ ~alone /\ Budget
  /\ Assign([M EXCEPT !.apc = IF dbMatch.status = "active" THEN "read" ELSE "done",
                      !.openTx = IF dbMatch.status = "active" THEN @ \cup {ADMIN} ELSE @,
                      !.ops = @ + 1])

\* admin_force_finish after the read: through the session when there is one,
\* in the Match row otherwise
AdminFinish ==
  /\ Free /\ apc = "read" /\ Room
  /\ IF registered
     THEN Assign(TryLock([M EXCEPT !.apc = "wait"], ADMIN,
                         [NoReq EXCEPT !.op = "admin"]))
     ELSE Assign([Commit(M, ADMIN) EXCEPT !.dbMatch.status = "abandoned", !.apc = "done"])

\* the process stops: what is in memory is lost, what is committed or saved stays
Crash ==
  /\ up /\ cpc # "init" /\ crashes < MaxCrashes /\ ~alone
  /\ up' = FALSE /\ crashes' = crashes + 1 /\ ops' = ops
  /\ registered' = FALSE /\ state' = NoState /\ seq' = 0 /\ event_store' = NoTask
  /\ timers' = {} /\ lock' = NoTask /\ lockq' = <<>> /\ cpu' = NoTask
  /\ ctx' = [s \in {"L", "C"} |-> IdleCtx]
  /\ req' = [t \in Tasks |-> NoReq]
  /\ conn' = [p \in PlayerIds |-> "closed"]
  /\ tpc' = [p \in PlayerIds |-> "idle"]
  /\ apc' = IF apc = "idle" THEN "idle" ELSE "done"
  /\ cpc' = "done"
  /\ txn' = [t \in Tasks |-> <<>>] /\ openTx' = {}
  /\ oplog' = <<>> /\ lastCall' = NoCall
  /\ delay' = [p \in PlayerIds |-> 0] /\ entries' = <<>>
  /\ bpc' = [t \in BotTasks |-> "idle"]
  /\ UNCHANGED <<stored, saved, dbMatch, elapsed, config, search, sim, cleanup, net>>

\* GameSessionManager.recover_sessions: the state saved is loaded and, when it is
\* active, the session is registered with the number of stored events as its
\* sequence number and the disconnect timers are recovered
Recover ==
  /\ ~up
  /\ IF saved.status = "active"
     THEN Assign(recover_disconnect_timers(
                   [M EXCEPT !.up = TRUE, !.registered = TRUE, !.state = saved,
                             !.seq = Len(stored)],
                   saved.disconnected_players))
     ELSE Assign([M EXCEPT !.up = TRUE])

\* the look at the status alone
active_only(st, p) == st.status = "active"

\* BotRunner._execute_bot_move after its sleep: the match is active and the
\* expected action of the phase names the player
still_expected(st, p) ==
  st.status = "active" /\ st.current_phase.expected = p

\* BotRunner._execute_bot_move from the end of its sleep to handle_action: the
\* state is looked at again, the strategy is fetched and chooses among the valid
\* actions, and the action is submitted; an exception ends the task
BotWake(t) ==
  /\ Free /\ t \in BotTasks /\ bpc[t] = "sleep" /\ Room
  /\ LET p == t[2]
         ph == state.current_phase
         valid == get_valid_actions(game, state.game_data, ph, p)
         failed(e) == [M EXCEPT !.bpc[t] = "idle",
                                !.lastCall = [NoCall EXCEPT !.op = "bot", !.task = t,
                                                            !.player = p, !.error = e,
                                                            !.pre = Snap(M),
                                                            !.post = Snap(M)]]
     IN IF ~still_expected(state, p)
        THEN Assign([M EXCEPT !.bpc[t] = "idle"])
        ELSE IF get_strategy(bots[p]) = "ValueError" THEN Assign(failed("ValueError"))
        ELSE IF valid = {} THEN Assign(failed("IndexError"))
        ELSE \E chosen \in valid :
               Assign(TryLock([M EXCEPT !.bpc[t] = "busy", !.openTx = @ \cup {t},
                                        !.event_store = t],
                              t, [op |-> "action", player |-> p, payload |-> chosen,
                                  phase |-> ph.name, seen |-> state.action_number]))

Next ==
  \/ CreateSession
  \/ \E p \in PlayerIds : Connect(p)
  \/ \E p \in PlayerIds, payload \in Payloads : Submit(p, payload)
  \/ \E p \in PlayerIds : Drop(p)
  \/ \E p \in PlayerIds : StartGraceTimer(p)
  \/ \E p \in PlayerIds : TimerFire(p)
  \/ \E t \in Tasks : Acquire(t)
  \/ \E s \in {"L", "C"} : Step(s)
  \/ AdminRead
  \/ AdminFinish
  \/ Crash
  \/ Recover

Spec == Init /\ [][Next]_vars

(* ------------------- the same program, with a clock -------------------- *)
\* the disconnect timestamps that the clock is measured against: those of the
\* session while the process is up, those of the state store while it is down
Disconnected == SeqSet(IF up THEN state.disconnected_players ELSE saved.disconnected_players)

\* one tick of the clock. A tick is long next to an await: while the process is
\* up, time passes between operations only; a timer whose sleep is over fires
\* before the next tick
CanTick ==
  /\ up => (Free /\ lock = NoTask /\ lockq = <<>> /\ \A s \in {"L", "C"} : ctx[s].pc = "idle")
  /\ \A p \in PlayerIds : tpc[p] = "sleep" => delay[p] > 0
  /\ \E p \in PlayerIds : (p \in Disconnected /\ elapsed[p] < Grace) \/ delay[p] > 0
Tick ==
  /\ CanTick
  /\ elapsed' = [p \in PlayerIds |->
                   IF p \in Disconnected /\ elapsed[p] < Grace THEN elapsed[p] + 1
                   ELSE elapsed[p]]
  /\ delay' = [p \in PlayerIds |-> IF delay[p] > 0 THEN delay[p] - 1 ELSE 0]
  /\ UNCHANGED <<up, registered, state, seq, event_store, timers, lock, lockq, cpu, ctx,
                 req, conn, tpc, apc, cpc, txn, openTx, stored, saved, dbMatch, oplog,
                 lastCall, ops, crashes, entries, bpc, config, search, sim, cleanup, net>>

\* GameSession._grace_period_expired: asyncio.sleep(delay) returns
TimerDue(p) == delay[p] = 0 /\ TimerFire(p)

\* _recover_disconnect_timers goes on: the forfeit it awaits runs to its next
\* await and, once it has ended, the entries that follow are looked at
RecoverStep ==
  /\ up /\ cpu = RECOVER
  /\ IF ctx["L"].pc = "idle" THEN Assign(recover_disconnect_timers(M, entries))
     ELSE \E n \in {Resume(M, "L")} :
            Assign(IF n.fault = None /\ n.ctx["L"].pc = "idle"
                   THEN recover_disconnect_timers(n, n.entries) ELSE n)

NextTimed ==
  \/ CreateSession
  \/ \E p \in PlayerIds : Connect(p)
  \/ \E p \in PlayerIds, payload \in Payloads : Submit(p, payload)
  \/ \E p \in PlayerIds : Drop(p)
  \/ \E p \in PlayerIds : StartGraceTimer(p)
  \/ \E p \in PlayerIds : TimerDue(p)
  \/ \E t \in Tasks : Acquire(t)
  \/ \E s \in {"L", "C"} : Step(s)
  \/ AdminRead
  \/ AdminFinish
  \/ Crash
  \/ Recover
  \/ RecoverStep
  \/ Tick

InitTimed == Init /\ ~alone
SpecTimed == InitTimed /\ [][NextTimed]_vars

\* what the process does by itself: a task that can run, a timer whose sleep is
\* over, a restart, the clock
Internal ==
  \/ \E p \in PlayerIds : StartGraceTimer(p) \/ TimerDue(p)
  \/ \E t \in Tasks : Acquire(t)
  \/ \E s \in {"L", "C"} : Step(s)
  \/ Recover
  \/ RecoverStep
  \/ Tick
\* one of these can happen
CanRun ==
  \/ ~up
  \/ up /\ cpu # NoTask
  \/ Free /\ \E p \in PlayerIds : tpc[p] = "sleep" /\ delay[p] = 0 /\ Room
  \/ Free /\ lock = NoTask /\ lockq # <<>>
  \/ Free /\ \E s \in {"L", "C"} : ctx[s].pc # "idle"
  \/ CanTick

(* --------- the same program, with a plugin that never stops ------------ *)
InitLoop == InitOf({<<"looping", <<"p1", "p2">>, DISCONNECT_POLICY_FORFEIT_PLAYER>>}, {NoBots})

\* the match is being created, which the operator may end; the players, who are
\* given the match once create_session has returned, send nothing
NextLoop ==
  \/ CreateSession
  \/ \E p \in PlayerIds : Connect(p)
  \/ \E s \in {"L", "C"} : Step(s)
  \/ AdminRead
  \/ AdminFinish

SpecLoop == InitLoop /\ [][NextLoop]_vars

(* ---------------------- the same program, with bots --------------------- *)
\* a match of a player and a bot
InitBots == InitOf(Configs, BotSeats) /\ Len(players) = 2

NextBots ==
  \/ CreateSession
  \/ \E p \in PlayerIds : Connect(p)
  \/ \E p \in PlayerIds, payload \in Payloads : Submit(p, payload)
  \/ \E p \in PlayerIds : Drop(p)
  \/ \E p \in PlayerIds : StartGraceTimer(p)
  \/ \E p \in PlayerIds : TimerFire(p)
  \/ \E t \in BotTasks : BotWake(t)
  \/ \E t \in Tasks : Acquire(t)
  \/ \E s \in {"L", "C"} : Step(s)
  \/ AdminRead
  \/ AdminFinish
  \/ Crash
  \/ Recover

SpecBots == InitBots /\ [][NextBots]_vars

(* ----------------------- one call of mcts_search ----------------------- *)
InitSearch ==
  /\ InitMatch({<<"carcassonne", SearchPlayers, DISCONNECT_POLICY_FORFEIT_PLAYER>>}, {NoBots})
  /\ \E a \in SearchArgs : search = SearchCalled(a)
  /\ sim = NoSim /\ cleanup = NoSim /\ net = NoSim

SearchStep(n) == search' = n /\ UNCHANGED <<config, sim, cleanup, net, bpc, up, registered, state, seq,
  event_store, timers, lock, lockq, cpu, ctx, req, conn, tpc, apc, cpc, txn, openTx,
  stored, saved, dbMatch, oplog, lastCall, ops, crashes, elapsed, delay, entries>>

\* mcts_search down to its loop: the valid actions, the early return, the budgets
SearchStart ==
  /\ search.pc = "call"
  /\ LET a == search.args
         valid == plugin_get_valid_actions(a.game, a.game_data, a.phase, a.player_id)
         per == a.num_simulations \div a.num_determinizations
     IN SearchStep(
          IF early_return(valid)
          THEN [search EXCEPT !.pc = "done", !.valid_actions = valid,
                              !.result = IF valid # <<>> THEN valid[1] ELSE EmptyDict]
          ELSE IF a.num_determinizations = 0
          THEN [search EXCEPT !.pc = "done", !.valid_actions = valid,
                              !.raised = "ZeroDivisionError"]
          ELSE [search EXCEPT !.pc = "det", !.valid_actions = valid,
                              !.sims_per_det = IF per > 1 THEN per ELSE 1,
                              !.total_deadline = a.time_limit * a.num_determinizations])

\* the head of the loop over the determinizations
SearchDeterminize ==
  /\ search.pc = "det"
  /\ LET a == search.args
         d == search.now + a.time_limit
     IN SearchStep(
          IF search.det_idx = a.num_determinizations \/ search.now >= search.total_deadline
          THEN [search EXCEPT !.pc = "return"]
          ELSE [search EXCEPT !.pc = "sim", !.sim_i = 0, !.root = MCTSRoot,
                              !.det_deadline = IF d < search.total_deadline THEN d
                                               ELSE search.total_deadline])

\* one turn of the loop over the simulations, or its end and the collection of
\* the visits of the root's children
SearchIterate ==
  /\ search.pc = "sim"
  /\ IF search.sim_i = search.sims_per_det \/ search.now >= search.det_deadline
     THEN SearchStep([search EXCEPT !.pc = "det", !.det_idx = @ + 1,
                                    !.trees = Append(@, search.root.children),
                                    !.action_visits = collect(@, search.root.children)])
     ELSE \E pick \in 1..(IF search.root.children = <<>> THEN 1 ELSE Len(search.root.children)) :
            SearchStep([search EXCEPT !.sim_i = @ + 1, !.iterations = @ + 1,
                                      !.root = run_one_iteration(@, search.args, pick)])

\* the end of mcts_search: the fallback or the most visited action
SearchReturn ==
  /\ search.pc = "return"
  /\ SearchStep([search EXCEPT !.pc = "done",
                               !.result = IF search.action_visits = <<>>
                                          THEN search.valid_actions[1]
                                          ELSE best_action(search.action_visits)])

\* time.monotonic() moves on
SearchTick ==
  /\ search.pc \in {"det", "sim"}
  /\ search.now < search.total_deadline
  /\ SearchStep([search EXCEPT !.now = @ + 1])

NextSearch == SearchStart \/ SearchDeterminize \/ SearchIterate \/ SearchReturn \/ SearchTick
SpecSearch == InitSearch /\ [][NextSearch]_vars

(* ------------------- the iterations of one search tree ----------------- *)
\* the tree of one determinization: a Carcassonne position of p1 with one to
\* MaxChoices open positions (and as many spots on a tile) and a bag of no
\* tile or one, the searching player and the widening parameters
TreeArgs ==
  [game : {"carcassonne"},
   game_data : [bag : 0..1, unplaceable : {<<>>}, tiles : {Zero(SearchPlayers)}, cur : {1},
                scores : {Zero(SearchPlayers)}, forfeited : {<<>>},
                placements : 1..MaxChoices,
                meeple_supply : {[p \in SeqSet(SearchPlayers) |-> m] : m \in 0..1},
                tiles_remaining : {NoneLeft}],
   phase : {Phase("place_tile", FALSE, "p1", 1), Phase("place_meeple", FALSE, "p1", 1)},
   players : {SearchPlayers}, player_id : SeqSet(SearchPlayers),
   pw_c : {1, 2}, pw_alpha : {0, 1, 2}]
\* root = MCTSNode(action_taken=None, parent=None) and its root_state
TreeCalled(a) ==
  [pc |-> "idle", args |-> a, nodes |-> <<MCTSNode(None, 0, None)>>, node |-> 1,
   state |-> [game_data |-> a.game_data, phase |-> a.phase, game_over |-> NoResult],
   path |-> <<>>, value |-> 0, before |-> <<>>, iterations |-> 0]
InitTree ==
  /\ InitMatch({<<"carcassonne", SearchPlayers, DISCONNECT_POLICY_FORFEIT_PLAYER>>}, {NoBots})
  /\ \E a \in TreeArgs : search = TreeCalled(a)
  /\ sim = NoSim /\ cleanup = NoSim /\ net = NoSim

\* _run_one_iteration is called: node = root, state = clone_state(root_state)
TreeBegin ==
  /\ search.pc = "idle" /\ search.iterations < MaxTreeIters
  /\ SearchStep([search EXCEPT
       !.pc = "select", !.node = 1, !.path = <<1>>, !.before = search.nodes,
       !.state = [game_data |-> search.args.game_data, phase |-> search.args.phase,
                  game_over |-> NoResult]])

\* one turn of the selection loop: down to the child of the best value (which
\* may be any child, the values being those of eval_fn), or out of the loop
TreeSelect ==
  /\ search.pc = "select"
  /\ LET a == search.args
         n == search.nodes[search.node]
     IN IF n.children # <<>> /\ at_widening_limit(n, a.pw_c, a.pw_alpha)
        THEN \E i \in 1..Len(n.children) :
               SearchStep([search EXCEPT
                 !.node = n.children[i], !.path = Append(@, n.children[i]),
                 !.state = apply_node_action(a.game, @, search.nodes[n.children[i]],
                                             a.players)])
        ELSE SearchStep([search EXCEPT !.pc = "expand"])

\* the expansion: the actions of a node reached for the first time, and a
\* child for the first untried action if the node is below its limit
TreeExpand ==
  /\ search.pc = "expand"
  /\ LET a == search.args
         st == search.state
         n == search.nodes[search.node]
         acting_pid == get_acting_player(st.phase, a.players)
         node == IF st.game_over = NoResult /\ ~n.expanded
                 THEN [n EXCEPT !.expanded = TRUE,
                                !.untried_actions =
                                   IF acting_pid # None
                                   THEN sort(plugin_get_valid_actions(a.game, st.game_data,
                                                                      st.phase, acting_pid))
                                   ELSE <<>>]
                 ELSE n
         child == Len(search.nodes) + 1
     IN IF /\ st.game_over = NoResult /\ node.untried_actions # <<>>
           /\ ~at_widening_limit(node, a.pw_c, a.pw_alpha)
        THEN \E c \in {MCTSNode(Head(node.untried_actions), search.node, acting_pid)} :
               SearchStep([search EXCEPT
                 !.pc = "evaluate", !.node = child, !.path = Append(@, child),
                 !.nodes = Append([@ EXCEPT ![search.node] =
                                      [node EXCEPT !.untried_actions = Tail(@),
                                                   !.children = Append(@, child)]], c),
                 !.state = IF acting_pid # None
                           THEN apply_node_action(a.game, @, c, a.players) ELSE @])
        ELSE SearchStep([search EXCEPT !.pc = "evaluate", !.nodes[search.node] = node])

\* the value of the leaf: of the result of a game that is over, else of eval_fn
TreeEvaluate ==
  /\ search.pc = "evaluate"
  /\ \E v \in IF search.state.game_over # NoResult
               THEN {terminal_value(search.state, search.args.player_id)}
               ELSE EvalValues :
       SearchStep([search EXCEPT !.pc = "backpropagate", !.value = v])

\* _backpropagate, and the return of _run_one_iteration
TreeBackpropagate ==
  /\ search.pc = "backpropagate"
  /\ SearchStep([search EXCEPT
       !.pc = "idle", !.iterations = @ + 1,
       !.nodes = backpropagate(@, search.node, search.value, search.args.player_id)])

NextTree == TreeBegin \/ TreeSelect \/ TreeExpand \/ TreeEvaluate \/ TreeBackpropagate
SpecTree == InitTree /\ [][NextTree]_vars

(* -------------- simulation states, their clones and a search ----------- *)
\* a Carcassonne game of two players begun with a bag of one to MaxBag tiles,
\* resolved to the first place_tile phase
InitSim ==
  /\ InitMatch({<<"carcassonne", SearchPlayers, DISCONNECT_POLICY_FORFEIT_PLAYER>>}, {NoBots})
  /\ search = NoSearch /\ cleanup = NoSim /\ net = NoSim
  /\ \E k \in 1..MaxBag :
       \E r \in {sim_apply_action_and_resolve(
                   <<[i \in 1..k |-> i], <<>>, [p \in SeqSet(SearchPlayers) |-> 1],
                     [tile_bag |-> 1, board |-> 2, meeple_supply |-> 3,
                      current_tile |-> None, scores |-> Zero(SearchPlayers)],
                     Phase("draw_tile", TRUE, None, 1), Zero(SearchPlayers)>>,
                   [game_data |-> 4, phase |-> 5, players |-> SearchPlayers,
                    scores |-> 6, game_over |-> NoResult], None)} :
         sim = [pc |-> "play", heap |-> r.heap, state |-> r.state, cloned |-> None,
                root_state |-> None, det_idx |-> 0, sim_i |-> 0, applied |-> 0,
                dets |-> 0, shuffled |-> FALSE]

SimStep(n) == sim' = n /\ UNCHANGED <<config, search, cleanup, net, bpc, up, registered, state, seq,
  event_store, timers, lock, lockq, cpu, ctx, req, conn, tpc, apc, cpc, txn, openTx,
  stored, saved, dbMatch, oplog, lastCall, ops, crashes, elapsed, delay, entries>>

NextSim ==
  \* the game goes on: apply_action_and_resolve on the state itself
  \/ /\ sim.pc = "play"
     /\ \E a \in sim_valid_actions(sim.heap, sim.state) :
          \E r \in {sim_apply_action_and_resolve(sim.heap, sim.state, a)} :
            SimStep([sim EXCEPT !.heap = r.heap, !.state = r.state])
  \* cloned = clone_state(state)
  \/ /\ sim.pc = "play"
     /\ \E r \in {clone_state(sim.heap, sim.state)} :
          SimStep([sim EXCEPT !.pc = "cloned", !.heap = r.heap, !.cloned = r.state])
  \* apply_action_and_resolve on the clone
  \/ /\ sim.pc = "cloned"
     /\ \E a \in sim_valid_actions(sim.heap, sim.cloned) :
          \E r \in {sim_apply_action_and_resolve(sim.heap, sim.cloned, a)} :
            SimStep([sim EXCEPT !.heap = r.heap, !.cloned = r.state, !.applied = @ + 1])
  \* mcts_search(state.game_data, state.phase, ...) with one to MaxDets
  \* determinizations, when there are two valid actions or more
  \/ /\ sim.pc \in {"play", "cloned"}
     /\ Cardinality(sim_valid_actions(sim.heap, sim.state)) > 1
     /\ \E d \in 1..MaxDets : SimStep([sim EXCEPT !.pc = "det", !.dets = d])
  \* a determinization: the copy of game_data with its bag shuffled, and the
  \* root state of the copy, of a copy of the phase and of dict(scores)
  \/ /\ sim.pc = "det" /\ sim.det_idx < sim.dets
     /\ \E c \in {deepcopy(sim.heap, sim.state.game_data)} :
          \E bag \in {b \in [1..Len(c.heap[c.heap[c.ref].tile_bag]) ->
                               SeqSet(c.heap[c.heap[c.ref].tile_bag])] :
                        SeqSet(b) = SeqSet(c.heap[c.heap[c.ref].tile_bag])} :
            SimStep([sim EXCEPT
              !.pc = "iter", !.sim_i = 0,
              !.shuffled = @ \/ bag # c.heap[c.heap[c.ref].tile_bag],
              !.heap = [c.heap EXCEPT ![c.heap[c.ref].tile_bag] = bag]
                         \o <<sim.heap[sim.state.phase], sim.heap[sim.state.game_data].scores>>,
              !.root_state = [game_data |-> c.ref, phase |-> Len(c.heap) + 1,
                              players |-> sim.state.players, scores |-> Len(c.heap) + 2,
                              game_over |-> NoResult]])
  \* _run_one_iteration: a clone of the root state, and the actions of the
  \* way down applied to it; the objects made for it are garbage afterwards
  \/ /\ sim.pc = "iter" /\ sim.sim_i < MaxIters
     /\ \E c \in {clone_state(sim.heap, sim.root_state)} :
          \E a \in sim_valid_actions(c.heap, c.state) :
            \E r \in {sim_apply_action_and_resolve(c.heap, c.state, a)} :
              \/ SimStep([sim EXCEPT !.heap = SubSeq(r.heap, 1, Len(sim.heap)),
                                      !.sim_i = @ + 1])
              \/ \E b \in sim_valid_actions(r.heap, r.state) :
                   SimStep([sim EXCEPT
                     !.heap = SubSeq(sim_apply_action_and_resolve(r.heap, r.state, b).heap,
                                     1, Len(sim.heap)),
                     !.sim_i = @ + 1])
  \* the end of a determinization, and of the search after the last
  \/ /\ sim.pc = "iter" /\ sim.sim_i > 0
     /\ SimStep([sim EXCEPT !.pc = IF sim.det_idx + 1 < sim.dets THEN "det" ELSE "done",
                            !.det_idx = @ + 1])

SpecSim == InitSim /\ [][NextSim]_vars

(* ------------------ a game of Carcassonne, step by step ---------------- *)
\* a game of two or three players with a bag of up to MaxBag tiles, of which
\* none, one or two fit nowhere at each of the first draws
InitGame ==
  /\ InitMatch({<<"carcassonne", SearchPlayers, DISCONNECT_POLICY_FORFEIT_PLAYER>>}, {NoBots})
  /\ search = NoSearch /\ cleanup = NoSim /\ net = NoSim
  /\ \E ps \in {<<"p1", "p2">>, <<"p1", "p2", "p3">>}, b \in 0..MaxBag,
        u \in {<<>>} \cup [1..1 -> 0..2] \cup [1..2 -> 0..2] :
       sim = [pc |-> "game", players |-> ps,
              game_data |-> [create_initial_state("carcassonne", ps).game_data
                               EXCEPT !.bag = b, !.unplaceable = u],
              phase |-> create_initial_state("carcassonne", ps).phase,
              game_over |-> NoResult, turns |-> 0, drawn |-> 0]

\* what apply_action returns is taken over, as apply_action_and_resolve does;
\* turns counts the score checks and drawn the tiles that left the bag
GameApply(a) ==
  \E res \in {apply_action("carcassonne", sim.game_data, sim.phase, a, sim.players)} :
    /\ res.raised = None
    /\ SimStep([sim EXCEPT !.game_data = res.game_data, !.phase = res.next_phase,
                           !.game_over = res.game_over,
                           !.turns = IF sim.phase.name = "score_check" THEN @ + 1 ELSE @,
                           !.drawn = @ + sim.game_data.bag - res.game_data.bag])

\* an auto-resolve phase is resolved with its synthetic action
GameAuto ==
  /\ sim.pc = "game" /\ sim.game_over = NoResult /\ sim.phase.auto_resolve
  /\ GameApply([action_type |-> sim.phase.name,
                player_id |-> phase_player_id(sim.phase, sim.players),
                payload |-> None])

\* the expected player sends one of the valid actions
GamePlay ==
  /\ sim.pc = "game" /\ sim.game_over = NoResult /\ ~sim.phase.auto_resolve
  /\ \E pl \in get_valid_actions("carcassonne", sim.game_data, sim.phase, sim.phase.expected) :
       GameApply([action_type |-> sim.phase.name, player_id |-> sim.phase.expected,
                  payload |-> pl])

NextGame == GameAuto \/ GamePlay
SpecGame == InitGame /\ [][NextGame]_vars
\* the stepper resolves the automatic phases at once and the players go on
\* sending valid actions
SpecGameFair == SpecGame /\ WF_vars(GameAuto) /\ WF_vars(GamePlay)

(* -------------------- one call of cleanup_stale_matches ----------------- *)
\* two match records, each active or finished and started at some time up to
\* now, with hot state in the state store or without
InitCleanup ==
  /\ InitMatch({<<"carcassonne", SearchPlayers, DISCONNECT_POLICY_FORFEIT_PLAYER>>}, {NoBots})
  /\ search = NoSearch /\ sim = NoSim /\ net = NoSim
  /\ \E now \in 0..(MaxDays * Day - 1) :
       \E ms \in [{"m1", "m2"} -> [status : {"active", "finished"}, started_at : 0..now,
                                   ended_at : {None}]] :
         \E hot \in SUBSET {"m1", "m2"} :
           cleanup = [pc |-> "call", now |-> now, matches |-> ms, before |-> ms,
                      hot |-> hot, active_redis_ids |-> {}]

NextCleanup ==
  \* active_redis_ids = set(await self._state_store.list_active_matches())
  \/ /\ cleanup.pc = "call"
     /\ cleanup' = [cleanup EXCEPT !.pc = "listed", !.active_redis_ids = cleanup.hot]
     /\ UNCHANGED <<config, search, sim, net, bpc, up, registered, state, seq, event_store,
                    timers, lock, lockq, cpu, ctx, req, conn, tpc, apc, cpc, txn, openTx,
                    stored, saved, dbMatch, oplog, lastCall, ops, crashes, elapsed, delay,
                    entries>>
  \* the select, the loop and the commit
  \/ /\ cleanup.pc = "listed"
     /\ cleanup' = [cleanup EXCEPT
                      !.pc = "done",
                      !.matches = cleanup_stale_matches(cleanup.matches,
                                                        cleanup.active_redis_ids, cleanup.now)]
     /\ UNCHANGED <<config, search, sim, net, bpc, up, registered, state, seq, event_store,
                    timers, lock, lockq, cpu, ctx, req, conn, tpc, apc, cpc, txn, openTx,
                    stored, saved, dbMatch, oplog, lastCall, ops, crashes, elapsed, delay,
                    entries>>

SpecCleanup == InitCleanup /\ [][NextCleanup]_vars

(* ------------- the connections of one player of an active match --------- *)
\* no connection yet: nothing registered, the player not recorded as
\* disconnected, no grace timer
InitConn ==
  /\ InitMatch({<<"carcassonne", <<"p1", "p2", "p3">>, DISCONNECT_POLICY_FORFEIT_PLAYER>>},
               {NoBots})
  /\ search = NoSearch /\ sim = NoSim /\ cleanup = NoSim
  /\ net = [pc |-> [c \in 1..MaxConns |-> "none"], live |-> {}, registered |-> 0,
            current |-> 0, disconnected |-> FALSE, timer |-> "none", forfeited |-> FALSE,
            overlap |-> FALSE]

ConnStep(n) == net' = n /\ UNCHANGED <<config, search, sim, cleanup, bpc, up, registered,
  state, seq, event_store, timers, lock, lockq, cpu, ctx, req, conn, tpc, apc, cpc, txn,
  openTx, stored, saved, dbMatch, oplog, lastCall, ops, crashes, elapsed, delay, entries>>

NextConn ==
  \E c \in 1..MaxConns :
     \* game_websocket up to CONNECTED: connect_player accepts the connection
     \* and puts it in the registry under the player's id (overlap: the
     \* handler of an earlier connection has not finished)
     \/ /\ net.pc[c] = "none" /\ \A d \in 1..(c - 1) : net.pc[d] # "none"
        /\ ConnStep([net EXCEPT !.pc[c] = "accepted", !.live = @ \cup {c},
                              !.registered = c, !.current = c,
                              !.overlap = @ \/ \E d \in 1..MaxConns :
                                                  net.pc[d] \notin {"none", "closed"}])
     \* the check of disconnected_players, handle_player_reconnect (the timer
     \* cancelled, the player no longer recorded as disconnected) and the
     \* first views
     \/ /\ net.pc[c] = "accepted" /\ c \in net.live
        /\ ConnStep(IF net.disconnected
                  THEN [net EXCEPT !.pc[c] = "loop", !.disconnected = FALSE,
                                   !.timer = "none"]
                  ELSE [net EXCEPT !.pc[c] = "loop"])
     \* the connection is lost
     \/ /\ net.pc[c] \in {"accepted", "loop"} /\ c \in net.live
        /\ ConnStep([net EXCEPT !.live = @ \ {c}])
     \* WebSocketDisconnect in the handler: disconnect_player pops the entry
     \* of the player from the registry
     \/ /\ net.pc[c] \in {"accepted", "loop"} /\ c \notin net.live
        /\ ConnStep([net EXCEPT !.pc[c] = "left", !.registered = 0])
     \* handle_player_disconnect and, when it has recorded the disconnect,
     \* _start_grace_timer
     \/ /\ net.pc[c] = "left"
        /\ ConnStep(IF net.forfeited \/ net.disconnected
                  THEN [net EXCEPT !.pc[c] = "closed"]
                  ELSE [net EXCEPT !.pc[c] = "closed", !.disconnected = TRUE,
                                   !.timer = "sleep"])
     \* _grace_period_expired: the player is forfeited when still recorded as
     \* disconnected
     \/ /\ c = 1 /\ net.timer = "sleep"
        /\ ConnStep(IF net.disconnected
                  THEN [net EXCEPT !.timer = "none", !.disconnected = FALSE,
                                   !.forfeited = TRUE]
                  ELSE [net EXCEPT !.timer = "none"])

SpecConn == InitConn /\ [][NextConn]_vars

(* ----------------------------- properties ------------------------------ *)
Final == {"finished", "abandoned"}
\* the entries of a log made by task t
Of(log, t) == {i \in 1..Len(log) : log[i].task = t}
\* the places of a log where task t made an entry of this kind and content
At(log, t, kind, what) ==
  {i \in Of(log, t) : log[i].kind = kind /\ log[i].what = what}
\* a step taken by the code that holds the lock: it moves on, or ends, or saves
\* and broadcasts on its way around a loop
ByLockHolder ==
  \/ ctx'["L"] # ctx["L"]
  \/ lastCall'.op \notin {None, "create"}
  \/ lock # NoTask /\ Cardinality(Of(oplog', lock)) > Cardinality(Of(oplog, lock))
\* the grace period of lastCall.player has just been handled, the event store
\* having taken the rows
Expired == lastCall.op = "expire" /\ lastCall.pre.state.status = "active"
           /\ lastCall.player \in SeqSet(lastCall.pre.state.disconnected_players)
           /\ lastCall.error # "IntegrityError"
\* the players other than lastCall.player who had not forfeited before the call
Others == active_players(lastCall.pre.state, lastCall.player)

\* C1: when no transaction is open, the sequence numbers of the stored events
\* of a match that has seen no restart and no operator request are exactly
\* 0 .. N-1, without gap or duplicate
C1_NumbersContiguous ==
  (openTx = {} /\ crashes = 0 /\ apc = "idle")
    => Numbers(stored) = 0..(Len(stored) - 1)

\* C2: the state and the sequence counter of a registered session are changed
\* only by the code that holds the lock of the session
C2_StateUnderMutex ==
  [][(up /\ up' /\ registered /\ (state' # state \/ seq' # seq))
     => ByLockHolder]_vars

\* C3: in a match that has seen no restart, a handle_action that fails has
\* left the state and the sequence counter as they were, has saved and
\* broadcast nothing, and has sent one error
C3_FailureChangesNothing ==
  (crashes = 0 /\ lastCall.op = "action" /\ lastCall.error # None)
    => /\ ~lastCall.applied
       /\ lastCall.post.state = lastCall.pre.state
       /\ lastCall.post.seq = lastCall.pre.seq
       /\ \A i \in Of(lastCall.log, lastCall.task) : lastCall.log[i].kind = "error"
       /\ Cardinality(Of(lastCall.log, lastCall.task)) = 1

\* C4: the error of a handle_action is that of the first check to fail, in the
\* order status, forfeit, turn, plugin validation; the action is applied only
\* when none fails
C4_FirstFailingCheck ==
  lastCall.op = "action" =>
    LET st == lastCall.pre.state
        a == [action_type |-> st.current_phase.name, player_id |-> lastCall.player,
              payload |-> lastCall.payload]
        first ==
          IF st.status # "active" THEN "GameNotActiveError"
          ELSE IF lastCall.player \in SeqSet(st.forfeited_players)
               THEN "PlayerForfeitedError"
          ELSE IF st.current_phase.expected \notin {None, lastCall.player}
               THEN "NotYourTurnError"
          ELSE IF validate_action(game, st.game_data, st.current_phase, a) # None
               THEN "InvalidActionError"
          ELSE None
    IN /\ first # None => (lastCall.error = first /\ ~lastCall.applied)
       /\ lastCall.applied => first = None
C4_Witness ==
  /\ lastCall.op = "action" /\ lastCall.error = "PlayerForfeitedError"
  /\ lastCall.pre.state.current_phase.expected \notin {None, lastCall.player}

\* C5: once the status is finished or abandoned, the status, game_data, the
\* phase, the scores and forfeited_players stay as they are
C5_FinalStateFrozen ==
  [][(up' /\ state.status \in Final)
     => /\ state'.status = state.status
        /\ state'.game_data = state.game_data
        /\ state'.current_phase = state.current_phase
        /\ state'.scores = state.scores
        /\ state'.forfeited_players = state.forfeited_players]_vars

\* C6: an action a player submits is not applied in an auto-resolve phase
C6_NoPlayerActionInAutoPhase ==
  (lastCall.op = "action" /\ lastCall.applied)
    => ~lastCall.pre.state.current_phase.auto_resolve

\* C7: no player is both disconnected and forfeited; forfeited_players holds
\* players of the match, none twice; it only grows, at its end
C7_ForfeitedPlayers ==
  /\ [](/\ SeqSet(state.disconnected_players) \cap SeqSet(state.forfeited_players) = {}
        /\ SeqSet(state.forfeited_players) \subseteq PSet
        /\ Cardinality(SeqSet(state.forfeited_players)) = Len(state.forfeited_players))
  /\ [][(up /\ up')
        => /\ Len(state.forfeited_players) <= Len(state'.forfeited_players)
           /\ SubSeq(state'.forfeited_players, 1, Len(state.forfeited_players))
                = state.forfeited_players]_vars
C7_Witness == Len(state.forfeited_players) = 2

\* C8: a reconnect that finds the player disconnected ends with the player no
\* longer disconnected, player_reconnected appended, the status unchanged, the
\* player not forfeited and the grace timer dead; a grace timer that is asleep
\* or waiting for the lock belongs to a disconnected player; and a player is
\* forfeited only by the expiry of a disconnect still on record
C8_ReconnectBeatsExpiry ==
  /\ []((/\ lastCall.op = "reconnect" /\ lastCall.error = None
         /\ lastCall.player \in SeqSet(lastCall.pre.state.disconnected_players))
        => /\ lastCall.player \notin SeqSet(state.disconnected_players)
           /\ At(lastCall.log, lastCall.task, "append", "player_reconnected") # {}
           /\ state.status = lastCall.pre.state.status
           /\ SeqSet(state.forfeited_players)
                = SeqSet(lastCall.pre.state.forfeited_players)
           /\ tpc[lastCall.player] = "idle"
           /\ lastCall.player \notin timers)
  /\ [](\A p \in PlayerIds :
          tpc[p] \in {"sleep", "wait"} => p \in SeqSet(state.disconnected_players))
  /\ [][(up /\ up')
        => \A p \in SeqSet(state'.forfeited_players) \ SeqSet(state.forfeited_players) :
             p \in SeqSet(state.disconnected_players)]_vars
C8_Witness ==
  /\ lastCall.op = "reconnect" /\ lastCall.error = None
  /\ At(lastCall.log, lastCall.task, "cancel", "wait") # {}
  /\ state.status = "active"

C11_NextPlayerCanMove ==
  (game = "einstein_dojo" /\ lastCall.op \in {"action", "expire"}
     /\ state.forfeited_players # <<>> /\ state.status = "active")
    => /\ ~state.current_phase.auto_resolve
       /\ state.current_phase.expected \in PSet \ SeqSet(state.forfeited_players)

\* _finish_game has set the status and awaits the save that comes before the
\* game_over broadcast and the cancelling of the timers
Finishing == \E s \in {"L", "C"} : ctx[s].pc = "fin1"
\* the status _finish_game sets is the one its reason asks for
StatusByReason ==
  \A s \in {"L", "C"} :
    ctx[s].pc = "fin1" =>
      state.status = (IF ctx[s].go.reason = "abandonment" THEN "abandoned" ELSE "finished")
\* whoever broadcasts game_over has saved the state with its final status before
SavedBeforeGameOver ==
  \A i \in 1..Len(oplog) :
    oplog[i].kind = "game_over" =>
      \E j \in 1..(i - 1) : /\ oplog[j].task = oplog[i].task /\ oplog[j].kind = "save"
                            /\ oplog[j].what \in Final
\* no grace timer sleeps or waits for the lock
NoTimerPending == \A p \in PlayerIds : tpc[p] \notin {"sleep", "wait"}
\* the forfeit and abandon events of a log
Forfeits(log) ==
  {i \in 1..Len(log) : /\ log[i].kind = "append"
                        /\ log[i].what \in {"player_forfeited", "game_abandoned"}}
\* the step neither forfeits a player nor appends a forfeit or abandon event
NothingForfeited ==
  /\ state'.forfeited_players = state.forfeited_players
  /\ Cardinality(Forfeits(oplog')) <= Cardinality(Forfeits(oplog))
\* C12: _finish_game sets the status its reason asks for and saves the state
\* with it before game_over is broadcast; once it has cancelled the timers no
\* grace timer of the session is pending, and from then on no player is
\* forfeited and no forfeit or abandon event is appended
C12_FinishedForGood ==
  /\ [](StatusByReason /\ SavedBeforeGameOver)
  /\ []((up /\ state.status \in Final /\ ~Finishing) => NoTimerPending)
  /\ [][(up /\ up' /\ state.status \in Final /\ ~Finishing) => NothingForfeited]_vars

\* recover_sessions returns with this step
RecoveryReturns == (~up \/ cpu = RECOVER) /\ up' /\ cpu' = NoTask
\* the player is disconnected in a match that is active, the process being up
Waiting(p) == up /\ state.status = "active" /\ p \in SeqSet(state.disconnected_players)
\* C13: when recover_sessions returns, every player still disconnected in an
\* active match has time left and a grace timer that sleeps for exactly what
\* remains of the grace period, the others having had the policy applied; no
\* player is forfeited before a grace period has passed since the disconnect;
\* once a grace period has passed and the process has done all it had to do,
\* a player who stayed disconnected has been forfeited, or the match has ended
C13_GraceAcrossRestart ==
  /\ [][RecoveryReturns =>
          \A p \in PlayerIds :
            (state'.status = "active" /\ p \in SeqSet(state'.disconnected_players))
              => /\ elapsed'[p] < Grace
                 /\ tpc'[p] = "sleep"
                 /\ delay'[p] = Grace - elapsed'[p]]_vars
  /\ [][\A p \in PlayerIds :
          (p \in SeqSet(state'.forfeited_players) /\ p \notin SeqSet(state.forfeited_players)
             /\ up)
            => elapsed[p] = Grace]_vars
  /\ [](~CanRun => \A p \in PlayerIds : ~(Waiting(p) /\ elapsed[p] = Grace))
\* C14: when recover_sessions has registered a recovered session, its sequence
\* number is the number of events stored for the match, which is one more than
\* the largest stored sequence number: the stored numbers are 0 .. N-1 and the
\* next event gets N
C14_NumberingAcrossRestart ==
  [][(~up /\ up' /\ registered')
       => /\ seq' = Len(stored')
          /\ Numbers(stored') = 0..(Len(stored') - 1)]_vars

\* C15: when create_session returns, the initial events are stored with the
\* numbers 0 .. k-1, the session is registered and, unless the match is no longer
\* active, its phase is not an auto-resolve phase; a move is scheduled for the
\* expected player of that phase when it is a bot
C15_CreatedSessionIsReady ==
  (lastCall.op = "create" /\ lastCall.error = None)
    => /\ LET k == Len(create_initial_state(game, players).events)
          IN /\ Len(stored) >= k
             /\ \A i \in 1..k : stored[i].sequence_number = i - 1
       /\ registered
       /\ (state.status = "active" => ~state.current_phase.auto_resolve)
       /\ \A p \in PlayerIds :
            (state.status = "active" /\ state.current_phase.expected = p /\ bots[p] # None)
              => \E t \in {BOT(p), BOT2(p)} : bpc[t] # "idle"

\* C16: with any plugin, one that never leaves its auto-resolve phases included,
\* no auto-resolve loop of the session (after an action, after a forfeit skip, in
\* create_session) applies more than 50 synthetic actions, and neither does
\* apply_action_and_resolve, which returns without raising
C16_AutoResolveIsCapped ==
  /\ \A s \in {"L", "C"} : ctx[s].autos <= AUTO_CAP
  /\ registered =>
       \A p \in PSet, pl \in Payloads :
         LET r == apply_action_and_resolve(game, state.game_data, state.current_phase,
                                           [action_type |-> state.current_phase.name,
                                            player_id |-> p, payload |-> pl], players)
         IN r.autos <= AUTO_CAP /\ (game = "looping" => r.raised = None)

\* C17: when append_events has failed during a handle_action, the submitter has
\* been told, the state in memory is the one last saved and the sequence counter
\* has advanced by the events the event store took
C17_StoreFailureReverts ==
  (lastCall.op = "action" /\ lastCall.error = "IntegrityError")
    => /\ At(lastCall.log, lastCall.task, "error", "IntegrityError") # {}
       /\ state = saved
       /\ seq = lastCall.pre.seq
                 + Cardinality({i \in Of(lastCall.log, lastCall.task) :
                                  lastCall.log[i].kind = "append"})

\* C18: a bot move that fails, in the strategy or in handle_action, ends with
\* the bot task and leaves the state and the sequence counter of the session as
\* they were, the match still active and the lock free for later operations
C18_BotFailureIsHarmless ==
  (lastCall.task \in BotTasks /\ lastCall.error # None)
    => /\ bpc[lastCall.task] = "idle"
       /\ lastCall.post.state = lastCall.pre.state
       /\ lastCall.post.seq = lastCall.pre.seq
       /\ state.status = "active"
       /\ lock # lastCall.task

\* a seat of the match is taken by a bot whose bot_id names no strategy
UnknownBot == \E p \in PSet : bots[p] # None /\ get_strategy(bots[p]) = "ValueError"
\* C19: for a match with a bot whose bot_id names no strategy, create_session
\* fails: no session is registered, no state is saved and no event is stored;
\* get_strategy raises ValueError for every name that is not registered
C19_UnknownBotIsFatal ==
  /\ UnknownBot => (~registered /\ saved = NoState /\ stored = <<>>)
  /\ \A id \in BotIds \ STRATEGY_FACTORIES : get_strategy(id) = "ValueError"

\* the search has returned a payload
SearchReturned == search.pc = "done" /\ search.raised = None
\* what get_valid_actions lists for the searching player at the input state
ValidAtInput ==
  plugin_get_valid_actions(search.args.game, search.args.game_data, search.args.phase,
                           search.args.player_id)
\* a search for the player whose turn it is, who has an action to choose, returns
\* one of the actions listed
SearchForActingPlayerIsValid ==
  (/\ SearchReturned
   /\ ValidAtInput # <<>>
   /\ search.args.player_id = get_acting_player(search.args.phase, SearchPlayers))
  => search.result \in SeqSet(ValidAtInput)
\* a search that went through its trees names the position of an action listed
SearchKeyIsValid ==
  (SearchReturned /\ ValidAtInput # <<>>)
  => action_key(search.result) \in {action_key(v) : v \in SeqSet(ValidAtInput)}

\* C20: for every input state, searching player and parameter setting, the
\* payload mcts_search returns is one of the payloads plugin.get_valid_actions
\* returns for that player at the input state
C20_SearchReturnsValidAction ==
  SearchReturned => search.result \in SeqSet(ValidAtInput)


\* C21: with exactly one valid action at the input state, mcts_search returns
\* that action at once: no iteration is run (no state cloned, no action
\* applied, no evaluation), no tree is built and no time is spent
C21_SingleActionAtOnce ==
  (SearchReturned /\ Len(ValidAtInput) = 1)
  => /\ search.result = ValidAtInput[1]
     /\ search.iterations = 0
     /\ search.trees = <<>> /\ search.root = MCTSRoot /\ search.action_visits = <<>>
     /\ search.now = 0
\* a search with one valid action and the means to run iterations has returned
C21_Witness ==
  /\ SearchReturned /\ Len(ValidAtInput) = 1
  /\ search.args.num_determinizations > 0 /\ search.args.time_limit > 0
  /\ search.args.num_simulations = MaxSims

\* the root children of all the trees built, in the order they were built
RECURSIVE RootChildren(_)
RootChildren(trees) == IF trees = <<>> THEN <<>> ELSE Head(trees) \o RootChildren(Tail(trees))
\* the visits of the action a, summed over the children ch
RECURSIVE AggregateVisits(_, _)
AggregateVisits(ch, a) ==
  IF ch = <<>> THEN 0
  ELSE (IF Head(ch).action_taken = a THEN Head(ch).visit_count ELSE 0)
       + AggregateVisits(Tail(ch), a)
\* the search went through its loops and returned
SearchedAndReturned == SearchReturned /\ Len(search.valid_actions) > 1
\* C22: a search that went through its loops returns the action of the highest
\* visit count summed over the root children of all trees; among the actions
\* of that count it returns the one met first, which the trees alone decide;
\* when no tree has a root child it returns the first valid action
C22_MostVisitedAction ==
  SearchedAndReturned =>
    LET ch == RootChildren(search.trees)
        agg(a) == AggregateVisits(ch, a)
    IN IF ch = <<>> THEN search.result = search.valid_actions[1]
       ELSE \E i \in 1..Len(ch) :
              /\ ch[i].action_taken = search.result
              /\ \A j \in 1..Len(ch) : agg(ch[j].action_taken) <= agg(search.result)
              /\ \A j \in 1..(i - 1) : agg(ch[j].action_taken) < agg(search.result)
\* two trees were built and two actions have the highest count
C22_Witness ==
  /\ SearchedAndReturned /\ Len(search.trees) = 2
  /\ LET ch == RootChildren(search.trees)
     IN \E i, j \in 1..Len(ch) :
          /\ ch[i].action_taken # ch[j].action_taken
          /\ AggregateVisits(ch, ch[i].action_taken) = AggregateVisits(ch, ch[j].action_taken)
          /\ ch[i].action_taken = search.result
          /\ AggregateVisits(ch, search.result) > 1


\* the player list is not empty, holds the searching player and is in seat
\* order with the indices 0..N-1
ProperPlayers(plist, player_id) ==
  /\ plist # <<>>
  /\ \E i \in 1..Len(plist) : plist[i].player_id = player_id
  /\ \A i \in 1..Len(plist) : plist[i].seat_index = i - 1
\* C23: a search given a player list that is empty, lacks the searching player
\* or is not in seat order with dense indices ends with an error and returns
\* no action, be it mcts_search or the search behind GrpcMctsStrategy
C23_BadPlayerListIsAnError ==
  /\ search.pc = "done" /\ ~ProperPlayers(search.args.players, search.args.player_id)
       => search.raised # None /\ search.result = None
  /\ \A ps \in SearchPlayerLists, p \in SeqSet(SearchPlayers) :
       ~ProperPlayers(ps, p) => grpc_check_players(ps, p) = "ValueError"
\* GrpcMctsStrategy.choose_action raises for every player list that is not
\* proper, and for no other
GrpcChecksPlayers ==
  \A ps \in SearchPlayerLists, p \in SeqSet(SearchPlayers) :
    ProperPlayers(ps, p) <=> grpc_check_players(ps, p) = None


\* C24: after apply_action_and_resolve has returned, whatever the plugin, the
\* state and the action, the phase of the state is not an auto-resolve phase
\* or the game is over
C24_ResolveEndsAtPlayerPhase ==
  registered =>
    \A p \in PSet, pl \in Payloads :
      LET r == apply_action_and_resolve(game, state.game_data, state.current_phase,
                                        [action_type |-> state.current_phase.name,
                                         player_id |-> p, payload |-> pl], players)
      IN r.raised = None => (~r.phase.auto_resolve \/ r.game_over # NoResult)


\* the objects a simulation state refers to through game_data, phase and scores
SimReach(h, st) ==
  {st.game_data, h[st.game_data].tile_bag, h[st.game_data].board,
   h[st.game_data].meeple_supply, st.phase, st.scores}
\* what a simulation state holds, references followed
SimValue(h, st) ==
  [tile_bag |-> h[h[st.game_data].tile_bag], board |-> h[h[st.game_data].board],
   meeple_supply |-> h[h[st.game_data].meeple_supply],
   current_tile |-> h[st.game_data].current_tile,
   game_data_scores |-> h[st.game_data].scores,
   phase |-> h[st.phase], scores |-> h[st.scores], game_over |-> st.game_over]
\* C25: a clone shares none of the objects of game_data, phase and scores with
\* the state it was made of; nothing done to the clone by
\* apply_action_and_resolve, and nothing a search does, changes what the state
\* held when it was cloned or searched
C25_CloneIsIndependent ==
  [][/\ sim.pc = "cloned" => SimReach(sim.heap, sim.state) \cap SimReach(sim.heap, sim.cloned) = {}
     /\ sim.pc \in {"cloned", "det", "iter"}
          => SimValue(sim'.heap, sim'.state) = SimValue(sim.heap, sim.state)]_vars
\* clone and original have parted in bag, board and supply, and a search of
\* two determinizations on the original, one or both with the bag in another
\* order, has ended
C25_Witness ==
  /\ sim.pc = "done" /\ sim.applied >= 2 /\ sim.dets = 2
  /\ LET o == SimValue(sim.heap, sim.state)
         c == SimValue(sim.heap, sim.cloned)
     IN /\ o.tile_bag # c.tile_bag /\ o.board # c.board
        /\ o.meeple_supply # c.meeple_supply /\ o.phase # c.phase
  /\ sim.shuffled


\* C26: two Carcassonne states that differ only in the tiles of the bag or
\* their order, the number left being the same, have the same player view for
\* every viewer: the state of a game and the same state with any other bag of
\* that length, and the state searched and its determinized copy
C26_ViewHidesBag ==
  sim.pc # "none" =>
    \A p \in SeqSet(SearchPlayers) \cup {None} :
      /\ \A bag \in [1..Len(sim.heap[sim.heap[sim.state.game_data].tile_bag]) -> 1..MaxBag] :
           get_player_view([sim.heap EXCEPT ![sim.heap[sim.state.game_data].tile_bag] = bag],
                           sim.state.game_data, p)
             = get_player_view(sim.heap, sim.state.game_data, p)
      /\ sim.pc = "iter" =>
           get_player_view(sim.heap, sim.root_state.game_data, p)
             = get_player_view(sim.heap, sim.state.game_data, p)
\* a state with two tiles left and its determinized copy, the two tiles in the
\* other order
C26_Witness ==
  /\ sim.pc = "iter"
  /\ Len(sim.heap[sim.heap[sim.state.game_data].tile_bag]) = 2
  /\ sim.heap[sim.heap[sim.root_state.game_data].tile_bag]
       # sim.heap[sim.heap[sim.state.game_data].tile_bag]


\* C27: cleanup_stale_matches marks a match abandoned if and only if it was
\* recorded active, has no hot state and was started more than 24 hours before
\* the cleanup; every other match keeps its record
C27_CleanupMarksStaleOnly ==
  cleanup.pc = "done" =>
    \A i \in DOMAIN cleanup.matches :
      LET stale == /\ cleanup.before[i].status = "active" /\ i \notin cleanup.hot
                   /\ cleanup.now - cleanup.before[i].started_at > Day
      IN /\ stale <=> cleanup.matches[i].status = "abandoned"
         /\ ~stale => cleanup.matches[i] = cleanup.before[i]
\* what the cleanup does: a match is marked abandoned if and only if it was
\* recorded active, has no hot state and was started before the last midnight;
\* so every match more than 24 hours old that is active and has no hot state is
\* marked, and no match with hot state and no match not active is touched
CleanupByMidnight ==
  cleanup.pc = "done" =>
    \A i \in DOMAIN cleanup.matches :
      LET b == cleanup.before[i]
          marked == cleanup.matches[i].status = "abandoned"
      IN /\ marked <=> (b.status = "active" /\ i \notin cleanup.hot
                        /\ b.started_at < cleanup.now - (cleanup.now % Day))
         /\ (b.status = "active" /\ i \notin cleanup.hot /\ cleanup.now - b.started_at > Day)
              => marked
         /\ ~marked => cleanup.matches[i] = b


\* the entries a task made in a log that are appends of events, saves of the
\* state, broadcasts of views and the game_over message of _finish_game, in
\* order
RECURSIVE Transitions(_, _, _)
Transitions(log, t, i) ==
  IF i > Len(log) THEN <<>>
  ELSE IF log[i].task = t /\ log[i].kind \in {"append", "save", "views", "game_over"}
  THEN <<log[i].kind>> \o Transitions(log, t, i + 1)
  ELSE Transitions(log, t, i + 1)
\* in a call of handle_action that applied the action, every save comes after
\* the appends of its transition and is followed by the broadcast of the views
\* before anything else is appended or saved, and every broadcast follows a
\* save (the save of _finish_game is followed by the game_over message)
AppendSaveBroadcast ==
  (lastCall.op = "action" /\ lastCall.applied)
    => LET tr == Transitions(lastCall.log, lastCall.task, 1)
       IN /\ \A i \in 1..Len(tr) :
               /\ tr[i] = "save" /\ i < Len(tr) => tr[i + 1] \in {"views", "game_over"}
               /\ tr[i] = "game_over" => i > 1 /\ tr[i - 1] = "save"
               /\ tr[i] = "views" => i > 1 /\ tr[i - 1] = "save"
               /\ tr[i] = "append" /\ i < Len(tr) => tr[i + 1] \in {"append", "save"}
          /\ lastCall.error = None =>
               tr # <<>> /\ tr[Len(tr)] \in {"views", "game_over"}
\* when handle_action has applied an action and released the mutex, no
\* auto-resolve phase and no turn of a forfeited player is left to apply
NothingLeftAtRelease ==
  (lastCall.op = "action" /\ lastCall.applied)
    => LET st == lastCall.post.state
       IN /\ ~run_auto_resolve(st)
          /\ ~(/\ st.status = "active" /\ ~st.current_phase.auto_resolve
               /\ st.current_phase.expected \in SeqSet(st.forfeited_players))
\* a bot move is scheduled at the end of handle_action only with the mutex
\* released
BotNotifiedAfterRelease ==
  [][\A t \in BotTasks :
       (bpc[t] = "idle" /\ bpc'[t] = "sleep" /\ lastCall' # lastCall /\ lastCall'.op = "action")
         => lock' = NoTask]_vars
\* C28: for every transition applied (the action of a player, each auto-resolve
\* step, each forfeit skip) the events are appended before the state is saved
\* and the state is saved before the views are broadcast; the auto-resolve
\* steps and forfeit skips that follow an action are all applied when the mutex
\* is released, and the Bot Runner is told only after that
C28_PipelineOrder ==
  /\ [](AppendSaveBroadcast /\ NothingLeftAtRelease)
  /\ BotNotifiedAfterRelease


\* every handler of the player has done what it had to do: the connections
\* are in their message loop and alive, or closed
ConnectionsSettled ==
  /\ net # NoSim
  /\ \A c \in 1..MaxConns : net.pc[c] \in {"none", "closed"}
                            \/ (net.pc[c] = "loop" /\ c \in net.live)
\* C29: when the handlers of a player's connections have all done their work
\* and the connection accepted last is alive, that connection is the one
\* registered for broadcasts and the player is not recorded as disconnected
\* with a grace timer running; no player is forfeited by a grace timer while
\* a connection of the player is alive
C29_LiveConnectionIsKept ==
  /\ []((ConnectionsSettled /\ net.current \in net.live /\ ~net.forfeited)
          => /\ net.registered = net.current
             /\ ~(net.disconnected /\ net.timer = "sleep"))
  /\ [][(net # NoSim /\ net'.forfeited /\ ~net.forfeited) => net.live = {}]_vars
\* a connection that is accepted after the disconnect of the one before has
\* been handled keeps its place in the registry and ends the grace period
ReconnectAfterDisconnect ==
  (ConnectionsSettled /\ net.current \in net.live /\ ~net.forfeited /\ ~net.overlap)
    => /\ net.registered = net.current
       /\ ~net.disconnected /\ net.timer = "none"


\* the rows a step adds to the transaction of a task come from events of that
\* task, when they are events the holder of the mutex emitted in the step
OwnTransaction ==
  [][\A t \in Tasks :
       Len(txn'[t]) > Len(txn[t])
         => LET base == IF \A s \in {"L", "C"} : ctx[s].op = None THEN 0 ELSE Len(oplog)
            IN \A i \in (base + 1)..Len(oplog') :
                 (oplog'[i].kind = "append" /\ oplog'[i].task = lock) => lock = t]_vars
\* an action that is rejected before it is applied has emitted no event: the
\* transaction its handler rolls back holds no row
RejectionDiscardsNothing ==
  [][(/\ lastCall' # lastCall /\ lastCall'.op = "action"
      /\ lastCall'.error # None /\ ~lastCall'.applied)
       => txn[lastCall'.task] = <<>>]_vars
\* C30: whichever handler has put its event store on the session, the events
\* emitted by the handler that holds the mutex are written in that handler's
\* own transaction, and an action that is rejected discards no event of
\* another handler
C30_EventsStayWithTheirHandler == OwnTransaction /\ RejectionDiscardsNothing

\* no run has three tasks of one bot at a time
AtMostTwoBotTasks == \A t \in BotTasks : bpc[t] # "third"

\* the bot task t hands an action to handle_action in this step
Submits(t) ==
  /\ bpc[t] = "sleep"
  /\ \/ bpc'[t] = "busy"
     \/ lastCall' # lastCall /\ lastCall'.op = "action" /\ lastCall'.task = t
\* the action of the bot task t is applied in this step
BotActionApplied(t) ==
  /\ ctx'["L"].task = t /\ ctx'["L"].op = "action" /\ ctx'["L"].applied
  /\ ~(ctx["L"].task = t /\ ctx["L"].applied)
\* a bot task submits only in an active match whose phase expects its player
SubmitsWhenExpected ==
  [][\A t \in BotTasks :
       Submits(t) => (state.status = "active" /\ state.current_phase.expected = t[2])]_vars
\* the payload applied was chosen in the state it is applied to: at once, or
\* after a wait for the mutex during which no transition was applied
AppliedWhereChosen ==
  [][\A t \in BotTasks :
       BotActionApplied(t)
         => (req[t].op = None \/ req[t].seen = state.action_number)]_vars
\* C31: a scheduled bot move submits an action only if, after its delay, the
\* match is still active and the expected action of the current phase still
\* names that bot; the payload it submits is applied only if no other transition
\* was applied to the session between the choice and the moment handle_action
\* acquires the mutex
C31_BotMoveIsCurrent == SubmitsWhenExpected /\ AppliedWhereChosen
\* a bot task whose choice was overtaken by the move of another task of the
\* same bot has been turned away
C31_Witness ==
  /\ lastCall.op = "action" /\ lastCall.task \in BotTasks
  /\ lastCall.error = "InvalidActionError" /\ ~lastCall.applied
  /\ \E t \in BotTasks \ {lastCall.task} : t[2] = lastCall.player /\ bpc[t] # "idle"

\* the tasks of the bot p that sleep, wait for the mutex or run
BotMoves(p) == {t \in {BOT(p), BOT2(p)} : bpc[t] # "idle"}
\* no operation on the session is in progress
SessionAtRest ==
  /\ up /\ registered /\ cpu = NoTask /\ lock = NoTask /\ lockq = <<>>
  /\ \A s \in {"L", "C"} : ctx[s].op = None
  /\ cpc = "done"
\* it is the turn of the bot p, whose bot_id names a strategy
BotTurn(p) ==
  /\ SessionAtRest /\ state.status = "active"
  /\ ~state.current_phase.auto_resolve /\ state.current_phase.expected = p
  /\ bots[p] \in STRATEGY_FACTORIES
\* a move is pending or running for the turn of a bot
AtLeastOneBotMove == \A p \in PlayerIds : BotTurn(p) => Cardinality(BotMoves(p)) >= 1
\* ... and no second one
AtMostOneBotMove == \A p \in PlayerIds : BotTurn(p) => Cardinality(BotMoves(p)) <= 1
\* C32: in an active match, whenever no operation on the session is in progress
\* and the expected player of the current interactive phase is a bot, exactly
\* one bot move for that turn is pending or running
C32_OneBotMovePerTurn == AtLeastOneBotMove /\ AtMostOneBotMove

\* the operation op of the player p takes the mutex in this step
Starts(op, p) ==
  /\ lock # WS(p)
  /\ \/ ctx'["L"].op = op /\ ctx'["L"].player = p /\ lock' = WS(p)
     \/ lastCall' # lastCall /\ lastCall'.op = op /\ lastCall'.player = p
\* the session is left as it was: the state with its disconnect timestamps, the
\* sequence counter, the timers and what they have left to sleep, the state
\* store; the operation has returned and has emitted nothing
LeftAlone(p) ==
  /\ state' = state /\ seq' = seq /\ saved' = saved
  /\ timers' = timers /\ tpc' = tpc /\ delay' = delay /\ elapsed' = elapsed
  /\ lock' # WS(p)
  /\ \A i \in 1..Len(oplog') : oplog'[i].task # WS(p)
\* handle_player_disconnect has nothing to do for the player p
NothingToRecord(p) ==
  \/ state.status # "active"
  \/ p \in SeqSet(state.forfeited_players)
  \/ p \in SeqSet(state.disconnected_players)
\* what the session becomes when the handler of one more connection of the
\* player p calls the operation op and gets the mutex at once
AnotherHandler(p, op) ==
  StartOp([M EXCEPT !.openTx = @ \cup {WS(p)}, !.event_store = WS(p)],
          WS(p), [NoReq EXCEPT !.op = op, !.player = p])
\* the session n is the present one
SameSession(n, p) ==
  /\ n.state = state /\ n.seq = seq /\ n.saved = saved
  /\ n.timers = timers /\ n.tpc = tpc /\ n.delay = delay /\ n.elapsed = elapsed
  /\ n.lock = NoTask /\ n.fault = None
  /\ \A i \in 1..Len(n.oplog) : n.oplog[i].task # WS(p)
\* a call in a state where there is nothing to do, whichever connection of the
\* player it comes from
RepeatedCallChangesNothing ==
  \A p \in PSet :
    (up /\ registered /\ Free /\ lock = NoTask /\ lockq = <<>>)
      => /\ NothingToRecord(p) => SameSession(AnotherHandler(p, "disconnect"), p)
         /\ p \notin SeqSet(state.disconnected_players)
              => SameSession(AnotherHandler(p, "reconnect"), p)
\* C33: handle_player_disconnect for a player who is already in
\* disconnected_players, who is forfeited, or whose match is not active changes
\* nothing: no event is appended, the recorded disconnect timestamp is kept and
\* the running grace timer is neither restarted nor extended;
\* handle_player_reconnect for a player who is not in disconnected_players
\* changes nothing
C33_NothingToDoChangesNothing ==
  /\ []RepeatedCallChangesNothing
  /\ [][\A p \in PlayerIds :
         /\ (Starts("disconnect", p) /\ NothingToRecord(p)) => LeftAlone(p)
         /\ (Starts("reconnect", p) /\ p \notin SeqSet(state.disconnected_players))
              => LeftAlone(p)]_vars
\* a forfeited player has come back, their connection has dropped again and
\* handle_player_disconnect has returned
C33_Witness ==
  /\ lastCall.op = "disconnect" /\ lastCall.error = None
  /\ lastCall.player \in SeqSet(lastCall.pre.state.forfeited_players)
  /\ lastCall.pre.state.status = "active"
  /\ lastCall.post = lastCall.pre
\* a player is recorded as disconnected and part of their grace period has
\* passed: the state in which a second disconnect must not restart the timer
GracePartlyOver ==
  /\ up /\ registered /\ Free /\ lock = NoTask /\ lockq = <<>> /\ state.status = "active"
  /\ \E q \in SeqSet(state.disconnected_players) :
        tpc[q] = "sleep" /\ delay[q] < Grace /\ elapsed[q] > 0

\* the synthetic action the session is about to pass to the plugin is the one
\* the stepper makes for the same phase
SameSynthetic ==
  (up /\ state.status = "active" /\ state.current_phase.auto_resolve)
    => /\ synthetic(state).action_type = state.current_phase.name
       /\ synthetic(state).player_id = phase_player_id(state.current_phase, players)
\* an accepted action of a match in which nobody is forfeited, sent once
\* create_session has returned, ends where the stepper ends from the same state
SameOutcome ==
  (/\ lastCall.op = "action" /\ lastCall.applied /\ lastCall.error = None
   /\ cpc = "done" /\ ~lastCall.pre.state.current_phase.auto_resolve
   /\ lastCall.post.state.forfeited_players = <<>>)
    => LET pre == lastCall.pre.state
           post == lastCall.post.state
           r == apply_action_and_resolve(game, pre.game_data, pre.current_phase,
                                         [action_type |-> pre.current_phase.name,
                                          player_id |-> lastCall.player,
                                          payload |-> lastCall.payload], players)
       IN /\ r.raised = None
          /\ r.game_data = post.game_data
          /\ r.phase = post.current_phase
          /\ r.game_data.scores = post.scores
\* C34: for the same plugin, players, initial state and sequence of accepted
\* player actions, the stepper (apply_action_and_resolve) and the Session Engine
\* (handle_action with its auto-resolve) pass the same synthetic actions to the
\* plugin and end in the same game_data, current phase and scores
C34_StepperMatchesSession == SameSynthetic /\ SameOutcome

\* the nodes of the tree, while a tree is searched
TreeNodes == IF search.pc \in {"none", "call", "det", "sim", "return", "done"} THEN {}
             ELSE 1..Len(search.nodes)
RECURSIVE SumVisits(_, _)
SumVisits(nodes, ch) ==
  IF ch = <<>> THEN 0 ELSE nodes[Head(ch)].visit_count + SumVisits(nodes, Tail(ch))
\* the root has been visited once for every iteration
RootCountsIterations ==
  TreeNodes # {} => search.nodes[1].visit_count = search.iterations
\* no node has fewer visits than its children together
ParentCoversChildren ==
  \A n \in TreeNodes :
    search.nodes[n].visit_count >= SumVisits(search.nodes, search.nodes[n].children)
\* the nodes the iteration went through, from the root down, one the child of
\* the other
PathIsChain ==
  (TreeNodes # {} /\ search.path # <<>>) =>
    /\ search.path[1] = 1
    /\ \A k \in 2..Len(search.path) :
         search.nodes[search.path[k]].parent = search.path[k - 1]
\* when an iteration is over, the nodes of its path have one visit more, and
\* the value (or one minus the value) more, than they had before it, and no
\* other node has changed
PathCredited ==
  (TreeNodes # {} /\ search.pc = "idle" /\ search.iterations > 0) =>
    \A n \in TreeNodes :
      LET node == search.nodes[n]
          was == IF n <= Len(search.before) THEN search.before[n]
                 ELSE MCTSNode(node.action_taken, node.parent, node.acting_player)
      IN IF n \in SeqSet(search.path)
         THEN /\ node.visit_count = was.visit_count + 1
              /\ node.total_value =
                   was.total_value
                   + (IF node.acting_player = None \/ node.acting_player = search.args.player_id
                      THEN search.value ELSE One - search.value)
         ELSE /\ node.visit_count = was.visit_count
              /\ node.total_value = was.total_value
\* C35: after every iteration of a search tree the root's visit count is the
\* number of iterations run on the tree, every node's visit count is at least
\* the sum of its children's, and every node of the iteration's path has
\* received one visit and the leaf value if its acting player is the searching
\* player or none, one minus the leaf value otherwise
C35_BackpropagationCounts ==
  RootCountsIterations /\ ParentCoversChildren /\ PathIsChain /\ PathCredited
\* an iteration that went three nodes deep is over, and a node of another
\* player than the searching one has been given one minus a value of eval_fn
C35_Witness ==
  /\ TreeNodes # {} /\ search.pc = "idle" /\ Len(search.path) >= 3
  /\ search.value = 3
  /\ \E k \in 1..Len(search.path) :
       /\ search.nodes[search.path[k]].acting_player \notin {None, search.args.player_id}
       /\ search.nodes[search.path[k]].visit_count > 1

\* the simulation state at a node: the actions of the way down applied to the
\* root state
RECURSIVE StateAt(_)
StateAt(n) ==
  IF n = 1
  THEN [game_data |-> search.args.game_data, phase |-> search.args.phase,
        game_over |-> NoResult]
  ELSE apply_node_action(search.args.game, StateAt(search.nodes[n].parent),
                         search.nodes[n], search.args.players)
\* the valid actions of the player who acts at a node
ValidAt(n) ==
  LET st == StateAt(n)
      acting_pid == get_acting_player(st.phase, search.args.players)
  IN IF st.game_over # NoResult \/ acting_pid = None THEN <<>>
     ELSE plugin_get_valid_actions(search.args.game, st.game_data, st.phase, acting_pid)
Limit(node) == max_children(node.visit_count, search.args.pw_c, search.args.pw_alpha)
\* no node has more children than its limit allows, nor than it has valid actions
ChildrenWithinLimit ==
  \A n \in TreeNodes :
    LET node == search.nodes[n]
    IN /\ Len(node.children) <= Limit(node)
       /\ Len(node.children) <= Len(ValidAt(n))
       /\ node.expanded => Len(node.children) + Len(node.untried_actions) = Len(ValidAt(n))
       /\ ~node.expanded => node.children = <<>>
\* a child is added only to a node with an untried action and fewer children
\* than its limit
ExpandsBelowLimit ==
  Len(search'.nodes) > Len(search.nodes) =>
    LET node == search.nodes[search.node]
    IN /\ Len(node.children) < Limit(node)
       /\ Len(search'.nodes[search.node].untried_actions) < Len(ValidAt(search.node))
       /\ search'.nodes[search.node].children = Append(node.children, Len(search'.nodes))
       /\ node.expanded => node.untried_actions # <<>>
\* the selection goes down to a child only from a node with children that is
\* at its limit or has no untried action left
SelectsThroughFullNodes ==
  (search.pc = "select" /\ search'.pc = "select" /\ search'.node # search.node) =>
    LET node == search.nodes[search.node]
    IN /\ node.children # <<>>
       /\ search'.node \in SeqSet(node.children)
       /\ node.untried_actions = <<>> \/ Len(node.children) >= Limit(node)
\* C36: in every search tree a child is added to a node only when the node has
\* untried actions and fewer children than max(1, floor(pw_c * visits^pw_alpha)),
\* so that no node has more children than that bound or than valid actions, and
\* the selection descends by UCT only through a node that has children and is
\* at the limit or has no untried action left
C36_ProgressiveWidening ==
  /\ []ChildrenWithinLimit
  /\ [][TreeNodes # {} => (ExpandsBelowLimit /\ SelectsThroughFullNodes)]_vars
\* the selection has gone down through a node that holds as many children as
\* its limit allows, two or more, and still has untried actions
C36_Witness ==
  /\ TreeNodes # {} /\ search.pc = "select" /\ Len(search.path) >= 2
  /\ LET node == search.nodes[search.path[Len(search.path) - 1]]
     IN /\ node.untried_actions # <<>>
        /\ Len(node.children) >= 2
        /\ Len(node.children) = Limit(node)

\* C37: the iterations one call of mcts_search runs, over all its
\* determinizations, are never more than num_simulations, for every
\* num_simulations >= 1 and every num_determinizations >= 1
C37_IterationsWithinBudget ==
  (search.pc \in {"call", "det", "sim", "return", "done"}
   /\ search.args.num_simulations >= 1 /\ search.args.num_determinizations >= 1)
    => search.iterations <= search.args.num_simulations

\* the result the record of the player p is to receive for the game result r
ResultFor(p, r) ==
  IF r.reason = "abandonment" THEN "abandoned"
  ELSE IF p \in SeqSet(state.forfeited_players) THEN "forfeit"
  ELSE IF r.winners = <<p>> THEN "win"
  ELSE IF p \in SeqSet(r.winners) THEN "draw"
  ELSE "loss"
MatchSynced == up /\ dbMatch.synced # NoResult
ResultByRule ==
  MatchSynced => \A p \in PSet : dbMatch.players[p].result = ResultFor(p, dbMatch.synced)
ScoreIsFinal ==
  MatchSynced => \A p \in PSet : dbMatch.players[p].score = state.scores[p]
\* C39: when a match finishes every player's record receives one result:
\* abandoned for every player when the reason is abandonment, otherwise forfeit
\* for a forfeited player, win for a sole winner, draw for the players who share
\* the win and loss for every other player; and the score recorded is the
\* player's final score
C39_ResultPerPlayer ==
  [][dbMatch'.players # dbMatch.players => (ResultByRule /\ ScoreIsFinal)']_vars
RowsByRule == [][dbMatch'.players # dbMatch.players => ResultByRule']_vars
RowsHoldScores == [][dbMatch'.players # dbMatch.players => (MatchSynced /\ ScoreIsFinal)']_vars

\* the class of a meeple spot: city, monastery, road, field, any other
SpotClass(a) ==
  CASE Head(a.spot) = "city" -> 1
    [] Head(a.spot) = "monastery" -> 2
    [] Head(a.spot) = "road" -> 3
    [] Head(a.spot) = "field" -> 4
    [] OTHER -> 5
\* the action a is to be expanded before the action b
Before(a, b) ==
  \/ a.kind = "tile" /\ b.kind = "tile" /\ Abs(a.x) + Abs(a.y) < Abs(b.x) + Abs(b.y)
  \/ a.kind = "meeple" /\ b.kind = "meeple" /\ SpotClass(a) < SpotClass(b)
  \/ a.kind # "skip" /\ b.kind = "skip"
\* the actions of a node: those of its children, as they were created, then
\* the untried ones
ActionsOf(n) ==
  [i \in 1..Len(search.nodes[n].children) |->
     search.nodes[search.nodes[n].children[i]].action_taken]
  \o search.nodes[n].untried_actions
\* the actions of every expanded node are its valid actions, none before one
\* that is to come before it, and its children were created one after the other
InPriorityOrder ==
  \A n \in TreeNodes :
    search.nodes[n].expanded =>
      LET acts == ActionsOf(n)
          ch == search.nodes[n].children
      IN /\ Len(acts) = Len(ValidAt(n)) /\ SeqSet(acts) = SeqSet(ValidAt(n))
         /\ \A i, j \in 1..Len(acts) : i < j => ~Before(acts[j], acts[i])
         /\ \A i, j \in 1..Len(ch) : i < j => ch[i] < ch[j]
\* a child is made for the first untried action
FirstUntriedFirst ==
  (TreeNodes # {} /\ Len(search'.nodes) > Len(search.nodes)) =>
    /\ search.nodes[search.node].expanded =>
         search'.nodes[Len(search'.nodes)].action_taken
           = Head(search.nodes[search.node].untried_actions)
    /\ \A a \in SeqSet(search'.nodes[search.node].untried_actions) :
         ~Before(a, search'.nodes[Len(search'.nodes)].action_taken)
\* C38: the untried actions of a node are in priority order: tile placements
\* by ascending |x|+|y|, meeple placements city before monastery before road
\* before field before any other spot, the skip after every other action; and
\* the children of a node are created in this order, first untried action first
C38_ExpansionOrder == []InPriorityOrder /\ [][FirstUntriedFirst]_vars
\* a node has children for a city, a monastery and a road, in this order, the
\* skip is the last of its untried actions, and the plugin had listed the
\* actions in another order
C38_Witness ==
  \E n \in TreeNodes :
    /\ Len(search.nodes[n].children) >= 3
    /\ search.nodes[n].untried_actions # <<>>
    /\ LET acts == ActionsOf(n)
       IN /\ acts[1].kind = "meeple" /\ SpotClass(acts[1]) = 1
          /\ acts[2].kind = "meeple" /\ SpotClass(acts[2]) = 2
          /\ acts[3].kind = "meeple" /\ SpotClass(acts[3]) = 3
          /\ acts[Len(acts)] = SkipMeeple
          /\ acts # ValidAt(n)
\* a node has children for three placements of a tile, the nearest to the
\* origin first, one of them at negative coordinates
TilesNearestFirst ==
  \E n \in TreeNodes :
    /\ Len(search.nodes[n].children) >= 3
    /\ LET acts == ActionsOf(n)
       IN /\ \A i \in 1..3 : acts[i].kind = "tile"
          /\ Abs(acts[1].x) + Abs(acts[1].y) < Abs(acts[3].x) + Abs(acts[3].y)
          /\ \E i \in 1..3 : acts[i].x < 0 \/ acts[i].y < 0
          /\ acts # ValidAt(n)

\* one step of a game from the phase ph to the phase nx
TurnCycle ==
  (sim.pc = "game" /\ sim' # sim) =>
    LET ph == sim.phase
        nx == sim'.phase
        bag == sim.game_data.bag
        N == Len(sim.players)
    IN /\ sim'.game_data.bag <= bag
       /\ sim'.game_over # NoResult <=> ph.name = "end_game_scoring"
       /\ CASE ph.name = "draw_tile" ->
                 /\ ph.auto_resolve
                 /\ \/ /\ bag > 0 /\ sim'.game_data.bag < bag
                       /\ nx = Phase("place_tile", FALSE, sim.players[ph.player_index],
                                     ph.player_index)
                    \/ /\ sim'.game_data.bag = 0
                       /\ nx.name = "end_game_scoring" /\ nx.auto_resolve
            [] ph.name = "place_tile" ->
                 /\ nx = Phase("place_meeple", FALSE, ph.expected, ph.player_index)
                 /\ sim'.game_data.bag = bag
            [] ph.name = "place_meeple" ->
                 /\ nx = Phase("score_check", TRUE, None, ph.player_index)
                 /\ sim'.game_data.bag = bag
            [] ph.name = "score_check" ->
                 /\ ph.auto_resolve
                 /\ nx = Phase("draw_tile", TRUE, None, (ph.player_index % N) + 1)
                 /\ sim'.game_data.bag = bag
            [] ph.name = "end_game_scoring" -> sim'.game_data.bag = 0
            [] OTHER -> FALSE
\* at every score check a tile or more has left the bag since the last one
TileEachTurn == sim.pc = "game" => sim.drawn >= sim.turns
GameIsOver == sim.pc = "game" /\ sim.game_over # NoResult /\ sim.game_data.bag = 0
\* C40: in Carcassonne the phases of a turn follow the cycle draw_tile (auto),
\* place_tile, place_meeple, score_check (auto), draw_tile for the next seat,
\* with the same player expected in place_tile and place_meeple and the turn
\* passing to the seat (i+1) mod N; a draw_tile with an empty bag leads to the
\* end-game scoring and game_over; every turn takes a tile or more from the
\* bag, and every game driven by valid actions ends with the bag empty
C40_TurnCycleEnds == [][TurnCycle]_vars /\ []TileEachTurn /\ <>GameIsOver
\* a game of three turns is over: the turn has come back to the first seat
C40_Witness == GameIsOver /\ sim.turns >= 3 /\ Len(sim.players) = 2
\* a draw found no tile of the bag that fits, and the game is over
DiscardEndsGame == GameIsOver /\ sim.drawn > sim.turns /\ sim.turns >= 1

\* CanRun holds wherever an Internal step can be taken
CanRunCovers == [][Internal => CanRun]_vars
====
